---- MODULE Spec2Model ----
(***************************************************************************)
(* A model of rubix.py: the RubiksCube facelet grid and its twelve quarter *)
(* turns, the move history, the CubeSolver strategies (history reversal,   *)
(* external solver, breadth-first search) and the CubeDisplay that drives  *)
(* them from key events, a solver thread and the animation of the main     *)
(* loop.                                                                   *)
(*                                                                         *)
(* Python lists are modelled as functions over 0..n-1 where the code       *)
(* indexes them (the 3x3 grids, rows and columns) and as sequences where   *)
(* the code appends to them (histories, paths, queues).  Move tokens and   *)
(* the 54-character state strings are strings.                             *)
(***************************************************************************)
EXTENDS Integers, Sequences, FiniteSets, TLC

VARIABLES
    cube,                \* the RubiksCube operated on (CubeDisplay.cube): [faces, move_history]
    untracked,           \* apply_move calls with track_history=False since the cube was last fresh
    KOCIEMBA_AVAILABLE,  \* whether `import kociemba` succeeded
    pc,                  \* where the running solve is: in solve_cube, then in solve_thread
    solution,            \* what solve_cube returned (solve_thread's local `solution`)
    max_depth,           \* solve_cube's loop variable over the BFS depth ceilings
    log,                 \* the strategies solve_cube has run so far, each with its candidate
    bfs_stopped,         \* how the latest solve_bfs call of the running solve stopped
    solve_status,        \* CubeDisplay.solve_status, the slot update_progress writes
    move_queue,          \* CubeDisplay.move_queue
    current_move_index,  \* CubeDisplay.current_move_index
    animating,           \* CubeDisplay.animating
    animation_ticks,     \* CubeDisplay.animation_ticks
    solving,             \* CubeDisplay.solving
    running,             \* run()'s local `running`
    input_pc,            \* where the main loop is in handle_input's `animating or solving`
    heap,                \* the list objects of two cubes: address -> row or history list
    cubes,               \* the cube objects `original` and `duplicate`: the addresses they hold
    expected,            \* the grid and history each of the two should have, cube by cube
    copy_ops,            \* the calls made on the two cubes so far
    returned,            \* what solver.solve_cube(original) last returned, None before any call
    history_at_call      \* the history the cube had when the running solve_cube was called

cubeVars == <<cube, untracked>>

solverVars == <<pc, solution, max_depth, log, bfs_stopped>>

displayVars == <<move_queue, current_move_index, animating, animation_ticks, solving, running,
                 input_pc>>

copyVars == <<heap, cubes, expected, copy_ops, returned>>

vars == <<cube, untracked, KOCIEMBA_AVAILABLE, pc, solution, max_depth, log, bfs_stopped, solve_status,
          move_queue, current_move_index, animating, animation_ticks, solving, running, input_pc,
          heap, cubes, expected, copy_ops, returned, history_at_call>>

(***************************************************************************)
(* Faces, colours, tokens                                                  *)
(***************************************************************************)

\* class Face(Enum)
Face == {"FRONT", "BACK", "LEFT", "RIGHT", "UP", "DOWN"}

\* the keys of COLORS
Colors == {"W", "Y", "R", "O", "G", "B"}

\* is_solved.target_colors, and the colours __init__ paints
target_colors ==
    [f \in Face |->
        CASE f = "FRONT" -> "G" [] f = "BACK" -> "B" [] f = "LEFT" -> "O"
          [] f = "RIGHT" -> "R" [] f = "UP" -> "W" [] f = "DOWN" -> "Y"]

\* CubeSolver.moves / RubiksCube.scramble.move_options, in the code's order
moves_list == <<"F", "F'", "R", "R'", "U", "U'", "L", "L'", "D", "D'", "B", "B'">>

Moves == {moves_list[i] : i \in 1..Len(moves_list)}

\* apply_move.move_map / CubeSolver.move_map: token -> (func_name, clockwise)
move_map ==
    [m \in Moves |->
        CASE m = "F"  -> <<"rotate_front", TRUE>>
          [] m = "F'" -> <<"rotate_front", FALSE>>
          [] m = "R"  -> <<"rotate_right", TRUE>>
          [] m = "R'" -> <<"rotate_right", FALSE>>
          [] m = "U"  -> <<"rotate_up", TRUE>>
          [] m = "U'" -> <<"rotate_up", FALSE>>
          [] m = "L"  -> <<"rotate_left", TRUE>>
          [] m = "L'" -> <<"rotate_left", FALSE>>
          [] m = "D"  -> <<"rotate_down", TRUE>>
          [] m = "D'" -> <<"rotate_down", FALSE>>
          [] m = "B"  -> <<"rotate_back", TRUE>>
          [] m = "B'" -> <<"rotate_back", FALSE>>]

(***************************************************************************)
(* RubiksCube: the grid                                                    *)
(***************************************************************************)

\* a three-element list, indexed 0..2 as in the code
list3(a, b, c) == (0 :> a) @@ (1 :> b) @@ (2 :> c)

\* [[color] * 3 for _ in range(3)]
uniform_face(color) ==
    list3(list3(color, color, color), list3(color, color, color), list3(color, color, color))

\* RubiksCube.__init__: the solved grid
solved_faces ==
    [FRONT |-> uniform_face("G"), BACK |-> uniform_face("B"), LEFT |-> uniform_face("O"),
     RIGHT |-> uniform_face("R"), UP |-> uniform_face("W"), DOWN |-> uniform_face("Y")]

\* RubiksCube(): a fresh cube
RubiksCube == [faces |-> solved_faces, move_history |-> <<>>]

\* list(reversed(values)) of a three-element list
reversed3(values) == list3(values[2], values[1], values[0])

\* a self-rotation that transposes the face: faces[face][j][i] = old_face[i][j]
rotate_face_transposed(faces, face) ==
    LET old_face == faces[face]
    IN  [faces EXCEPT ![face] = list3(list3(old_face[0][0], old_face[1][0], old_face[2][0]),
                                      list3(old_face[0][1], old_face[1][1], old_face[2][1]),
                                      list3(old_face[0][2], old_face[1][2], old_face[2][2]))]

\* rotate_face_clockwise: faces[face][j][2-i] = old_face[i][j]
rotate_face_clockwise(faces, face) ==
    LET old_face == faces[face]
    IN  [faces EXCEPT ![face] = list3(list3(old_face[2][0], old_face[1][0], old_face[0][0]),
                                      list3(old_face[2][1], old_face[1][1], old_face[0][1]),
                                      list3(old_face[2][2], old_face[1][2], old_face[0][2]))]

\* rotate_face_counterclockwise: three clockwise rotations
rotate_face_counterclockwise(faces, face) ==
    rotate_face_clockwise(rotate_face_clockwise(rotate_face_clockwise(faces, face), face), face)

\* get_row: faces[face][row_idx][:]
get_row(faces, face, row_idx) ==
    list3(faces[face][row_idx][0], faces[face][row_idx][1], faces[face][row_idx][2])

\* get_col: [faces[face][i][col_idx] for i in range(3)]
get_col(faces, face, col_idx) ==
    list3(faces[face][0][col_idx], faces[face][1][col_idx], faces[face][2][col_idx])

\* set_row: faces[face][row_idx][i] = val for each i, val of values
set_row(faces, face, row_idx, values) ==
    [faces EXCEPT ![face][row_idx][0] = values[0],
                  ![face][row_idx][1] = values[1],
                  ![face][row_idx][2] = values[2]]

\* a set_col that writes the column next to the one it is given
set_col_shifted(faces, face, col_idx, values) ==
    [faces EXCEPT ![face][0][(col_idx + 1) % 3] = values[0],
                  ![face][1][(col_idx + 1) % 3] = values[1],
                  ![face][2][(col_idx + 1) % 3] = values[2]]

\* set_col: faces[face][i][col_idx] = val for each i, val of values
set_col(faces, face, col_idx, values) ==
    [faces EXCEPT ![face][0][col_idx] = values[0],
                  ![face][1][col_idx] = values[1],
                  ![face][2][col_idx] = values[2]]

rotate_front(faces, clockwise) ==
    IF clockwise
    THEN LET f0 == rotate_face_clockwise(faces, "FRONT")
             temp == get_row(f0, "UP", 2)
             f1 == set_row(f0, "UP", 2, reversed3(get_col(f0, "LEFT", 2)))
             f2 == set_col(f1, "LEFT", 2, get_row(f1, "DOWN", 0))
             f3 == set_row(f2, "DOWN", 0, reversed3(get_col(f2, "RIGHT", 0)))
         IN  set_col(f3, "RIGHT", 0, temp)
    ELSE LET f0 == rotate_face_counterclockwise(faces, "FRONT")
             temp == get_row(f0, "UP", 2)
             f1 == set_row(f0, "UP", 2, get_col(f0, "RIGHT", 0))
             f2 == set_col(f1, "RIGHT", 0, reversed3(get_row(f1, "DOWN", 0)))
             f3 == set_row(f2, "DOWN", 0, get_col(f2, "LEFT", 2))
         IN  set_col(f3, "LEFT", 2, reversed3(temp))

rotate_right(faces, clockwise) ==
    IF clockwise
    THEN LET f0 == rotate_face_clockwise(faces, "RIGHT")
             temp == get_col(f0, "UP", 2)
             f1 == set_col(f0, "UP", 2, get_col(f0, "FRONT", 2))
             f2 == set_col(f1, "FRONT", 2, get_col(f1, "DOWN", 2))
             f3 == set_col(f2, "DOWN", 2, reversed3(get_col(f2, "BACK", 0)))
         IN  set_col(f3, "BACK", 0, reversed3(temp))
    ELSE LET f0 == rotate_face_counterclockwise(faces, "RIGHT")
             temp == get_col(f0, "UP", 2)
             f1 == set_col(f0, "UP", 2, reversed3(get_col(f0, "BACK", 0)))
             f2 == set_col(f1, "BACK", 0, reversed3(get_col(f1, "DOWN", 2)))
             f3 == set_col(f2, "DOWN", 2, get_col(f2, "FRONT", 2))
         IN  set_col(f3, "FRONT", 2, temp)

\* rotate_up whose clockwise cycle closes with FRONT's new row instead of temp
rotate_up_lost_temp(faces, clockwise) ==
    IF clockwise
    THEN LET f0 == rotate_face_clockwise(faces, "UP")
             f1 == set_row(f0, "FRONT", 0, get_row(f0, "RIGHT", 0))
             f2 == set_row(f1, "RIGHT", 0, get_row(f1, "BACK", 0))
             f3 == set_row(f2, "BACK", 0, get_row(f2, "LEFT", 0))
         IN  set_row(f3, "LEFT", 0, get_row(f3, "FRONT", 0))
    ELSE LET f0 == rotate_face_counterclockwise(faces, "UP")
             temp == get_row(f0, "FRONT", 0)
             f1 == set_row(f0, "FRONT", 0, get_row(f0, "LEFT", 0))
             f2 == set_row(f1, "LEFT", 0, get_row(f1, "BACK", 0))
             f3 == set_row(f2, "BACK", 0, get_row(f2, "RIGHT", 0))
         IN  set_row(f3, "RIGHT", 0, temp)

rotate_up(faces, clockwise) ==
    IF clockwise
    THEN LET f0 == rotate_face_clockwise(faces, "UP")
             temp == get_row(f0, "FRONT", 0)
             f1 == set_row(f0, "FRONT", 0, get_row(f0, "RIGHT", 0))
             f2 == set_row(f1, "RIGHT", 0, get_row(f1, "BACK", 0))
             f3 == set_row(f2, "BACK", 0, get_row(f2, "LEFT", 0))
         IN  set_row(f3, "LEFT", 0, temp)
    ELSE LET f0 == rotate_face_counterclockwise(faces, "UP")
             temp == get_row(f0, "FRONT", 0)
             f1 == set_row(f0, "FRONT", 0, get_row(f0, "LEFT", 0))
             f2 == set_row(f1, "LEFT", 0, get_row(f1, "BACK", 0))
             f3 == set_row(f2, "BACK", 0, get_row(f2, "RIGHT", 0))
         IN  set_row(f3, "RIGHT", 0, temp)

rotate_left(faces, clockwise) ==
    IF clockwise
    THEN LET f0 == rotate_face_clockwise(faces, "LEFT")
             temp == get_col(f0, "UP", 0)
             f1 == set_col(f0, "UP", 0, reversed3(get_col(f0, "BACK", 2)))
             f2 == set_col(f1, "BACK", 2, reversed3(get_col(f1, "DOWN", 0)))
             f3 == set_col(f2, "DOWN", 0, get_col(f2, "FRONT", 0))
         IN  set_col(f3, "FRONT", 0, temp)
    ELSE LET f0 == rotate_face_counterclockwise(faces, "LEFT")
             temp == get_col(f0, "UP", 0)
             f1 == set_col(f0, "UP", 0, get_col(f0, "FRONT", 0))
             f2 == set_col(f1, "FRONT", 0, get_col(f1, "DOWN", 0))
             f3 == set_col(f2, "DOWN", 0, reversed3(get_col(f2, "BACK", 2)))
         IN  set_col(f3, "BACK", 2, reversed3(temp))

rotate_down(faces, clockwise) ==
    IF clockwise
    THEN LET f0 == rotate_face_clockwise(faces, "DOWN")
             temp == get_row(f0, "FRONT", 2)
             f1 == set_row(f0, "FRONT", 2, get_row(f0, "LEFT", 2))
             f2 == set_row(f1, "LEFT", 2, get_row(f1, "BACK", 2))
             f3 == set_row(f2, "BACK", 2, get_row(f2, "RIGHT", 2))
         IN  set_row(f3, "RIGHT", 2, temp)
    ELSE LET f0 == rotate_face_counterclockwise(faces, "DOWN")
             temp == get_row(f0, "FRONT", 2)
             f1 == set_row(f0, "FRONT", 2, get_row(f0, "RIGHT", 2))
             f2 == set_row(f1, "RIGHT", 2, get_row(f1, "BACK", 2))
             f3 == set_row(f2, "BACK", 2, get_row(f2, "LEFT", 2))
         IN  set_row(f3, "LEFT", 2, temp)

\* rotate_back whose counterclockwise cycle forgets to reverse LEFT's column
rotate_back_no_reverse(faces, clockwise) ==
    IF clockwise
    THEN LET f0 == rotate_face_clockwise(faces, "BACK")
             temp == get_row(f0, "UP", 0)
             f1 == set_row(f0, "UP", 0, get_col(f0, "RIGHT", 2))
             f2 == set_col(f1, "RIGHT", 2, reversed3(get_row(f1, "DOWN", 2)))
             f3 == set_row(f2, "DOWN", 2, get_col(f2, "LEFT", 0))
         IN  set_col(f3, "LEFT", 0, reversed3(temp))
    ELSE LET f0 == rotate_face_counterclockwise(faces, "BACK")
             temp == get_row(f0, "UP", 0)
             f1 == set_row(f0, "UP", 0, get_col(f0, "LEFT", 0))
             f2 == set_col(f1, "LEFT", 0, get_row(f1, "DOWN", 2))
             f3 == set_row(f2, "DOWN", 2, reversed3(get_col(f2, "RIGHT", 2)))
         IN  set_col(f3, "RIGHT", 2, temp)

rotate_back(faces, clockwise) ==
    IF clockwise
    THEN LET f0 == rotate_face_clockwise(faces, "BACK")
             temp == get_row(f0, "UP", 0)
             f1 == set_row(f0, "UP", 0, get_col(f0, "RIGHT", 2))
             f2 == set_col(f1, "RIGHT", 2, reversed3(get_row(f1, "DOWN", 2)))
             f3 == set_row(f2, "DOWN", 2, get_col(f2, "LEFT", 0))
         IN  set_col(f3, "LEFT", 0, reversed3(temp))
    ELSE LET f0 == rotate_face_counterclockwise(faces, "BACK")
             temp == get_row(f0, "UP", 0)
             f1 == set_row(f0, "UP", 0, reversed3(get_col(f0, "LEFT", 0)))
             f2 == set_col(f1, "LEFT", 0, get_row(f1, "DOWN", 2))
             f3 == set_row(f2, "DOWN", 2, reversed3(get_col(f2, "RIGHT", 2)))
         IN  set_col(f3, "RIGHT", 2, temp)

\* getattr(self, func_name)(clockwise)
call_rotate(faces, func_name, clockwise) ==
    CASE func_name = "rotate_front" -> rotate_front(faces, clockwise)
      [] func_name = "rotate_right" -> rotate_right(faces, clockwise)
      [] func_name = "rotate_up"    -> rotate_up(faces, clockwise)
      [] func_name = "rotate_left"  -> rotate_left(faces, clockwise)
      [] func_name = "rotate_down"  -> rotate_down(faces, clockwise)
      [] func_name = "rotate_back"  -> rotate_back(faces, clockwise)

\* apply_move that records every token it is given, known or not
apply_move_records_unknown(self, move, track_history) ==
    [faces |-> IF move \in DOMAIN move_map
               THEN call_rotate(self.faces, move_map[move][1], move_map[move][2])
               ELSE self.faces,
     move_history |-> IF track_history THEN Append(self.move_history, move)
                                       ELSE self.move_history]

\* RubiksCube.apply_move on a cube [faces, move_history]
apply_move(self, move, track_history) ==
    IF move \in DOMAIN move_map
    THEN [faces |-> call_rotate(self.faces, move_map[move][1], move_map[move][2]),
          move_history |-> IF track_history THEN Append(self.move_history, move)
                                            ELSE self.move_history]
    ELSE self

\* is_solved that looks at the FRONT face only
is_solved_front_only(self) ==
    \A r \in 0..2 : \A c \in 0..2 : self.faces["FRONT"][r][c] = target_colors["FRONT"]

\* is_solved that looks at the centre of each face only
is_solved_centres_only(self) ==
    \A face \in Face : self.faces[face][1][1] = target_colors[face]

\* RubiksCube.is_solved
is_solved(self) ==
    \A face \in Face : \A r \in 0..2 : \A c \in 0..2 :
        self.faces[face][r][c] = target_colors[face]

\* [row[:] for row in rows]
copy_rows(rows) ==
    list3(list3(rows[0][0], rows[0][1], rows[0][2]),
          list3(rows[1][0], rows[1][1], rows[1][2]),
          list3(rows[2][0], rows[2][1], rows[2][2]))

\* RubiksCube.copy
copy(self) ==
    [faces |-> [FRONT |-> copy_rows(self.faces["FRONT"]), BACK |-> copy_rows(self.faces["BACK"]),
                LEFT |-> copy_rows(self.faces["LEFT"]), RIGHT |-> copy_rows(self.faces["RIGHT"]),
                UP |-> copy_rows(self.faces["UP"]), DOWN |-> copy_rows(self.faces["DOWN"])],
     move_history |-> self.move_history]

\* get_reverse_move that always adds a prime
get_reverse_move_always_prime(move) == move \o "'"

\* RubiksCube.get_reverse_move: strip a trailing prime, else add one
get_reverse_move(move) ==
    IF Len(move) > 0 /\ SubSeq(move, Len(move), Len(move)) = "'"
    THEN SubSeq(move, 1, Len(move) - 1)
    ELSE move \o "'"

\* get_perfect_solution that inverts each move but keeps the history's order
get_perfect_solution_forward(self) ==
    IF self.move_history = <<>>
    THEN <<>>
    ELSE [i \in 1..Len(self.move_history) |-> get_reverse_move(self.move_history[i])]

\* RubiksCube.get_perfect_solution: the inverses of the history, last move first
get_perfect_solution(self) ==
    IF self.move_history = <<>>
    THEN <<>>
    ELSE [i \in 1..Len(self.move_history) |->
            get_reverse_move(self.move_history[Len(self.move_history) + 1 - i])]

\* get_state_string's inner loop: the three characters of one row
row_string(row) == row[0] \o row[1] \o row[2]

\* a face read column by column
face_string_by_columns(rows) ==
    rows[0][0] \o rows[1][0] \o rows[2][0] \o rows[0][1] \o rows[1][1] \o rows[2][1]
        \o rows[0][2] \o rows[1][2] \o rows[2][2]

\* get_state_string's middle loop: the three rows of one face
face_string(rows) == row_string(rows[0]) \o row_string(rows[1]) \o row_string(rows[2])

\* RubiksCube.get_state_string: 54 characters, face by face, row by row
get_state_string(self) ==
    face_string(self.faces["UP"]) \o face_string(self.faces["RIGHT"])
        \o face_string(self.faces["FRONT"]) \o face_string(self.faces["DOWN"])
        \o face_string(self.faces["LEFT"]) \o face_string(self.faces["BACK"])

\* get_kociemba_string's colour -> letter chain, with its fallback
kociemba_letter(color) ==
    CASE color = "W" -> "U" [] color = "R" -> "R" [] color = "G" -> "F"
      [] color = "Y" -> "D" [] color = "O" -> "L" [] color = "B" -> "B"
      [] OTHER -> "U"

\* for move in moves: self.apply_move(move, track_history)
RECURSIVE apply_each(_, _, _)
apply_each(self, moves, track_history) ==
    IF moves = <<>>
    THEN self
    ELSE apply_each(apply_move(self, Head(moves), track_history), Tail(moves), track_history)

\* scramble's list of the tokens it draws from
move_options == <<"F", "F'", "R", "R'", "U", "U'", "L", "L'", "D", "D'", "B", "B'">>

\* scramble's loop: picks[i] is the index random.choice draws in round i, so
\* that Len(picks) is the argument `moves`; each drawn token is applied with
\* track_history=True and appended to new_moves
RECURSIVE scramble_loop(_, _, _)
scramble_loop(self, picks, new_moves) ==
    IF picks = <<>>
    THEN [cube |-> self, new_moves |-> new_moves]
    ELSE LET move == move_options[Head(picks)]
         IN  scramble_loop(apply_move(self, move, TRUE), Tail(picks), Append(new_moves, move))

\* scramble that starts the history afresh
scramble_replaces_history(self, picks) ==
    scramble_loop([self EXCEPT !.move_history = <<>>], picks, <<>>)

\* RubiksCube.scramble: the cube afterwards and the list returned
scramble(self, picks) == scramble_loop(self, picks, <<>>)

\* RubiksCube.reset_to_solved
reset_to_solved(self) == RubiksCube

(***************************************************************************)
(* Two cubes as objects: the lists they hold, by address                    *)
(***************************************************************************)

\* the faces in the order of `for face in Face`
face_order == <<"FRONT", "BACK", "LEFT", "RIGHT", "UP", "DOWN">>

\* no cube object
NoCube == [rows |-> <<>>, history |-> 0]

\* the 19 lists of a cube with this grid and history: the three rows of each
\* face in face_order, then the history
new_lists(value) ==
    [i \in 1..19 |-> IF i = 19
                     THEN value.move_history
                     ELSE value.faces[face_order[((i - 1) \div 3) + 1]][(i - 1) % 3]]

\* the cube object whose 19 lists were allocated after address base.  The dict
\* `faces` and its six outer lists are part of the object here: after
\* construction nothing stores into them but copy(), on the cube it builds
object_at(base) ==
    [rows |-> [face \in Face |->
                  LET k == CHOOSE k \in 1..6 : face_order[k] = face
                  IN  list3(base + 3 * (k - 1) + 1, base + 3 * (k - 1) + 2, base + 3 * (k - 1) + 3)],
     history |-> base + 19]

\* self.faces[face], read through the addresses
heap_face(h, self, face) ==
    list3(h[self.rows[face][0]], h[self.rows[face][1]], h[self.rows[face][2]])

\* the grid and history a cube object shows
deref(h, self) ==
    [faces |-> [FRONT |-> heap_face(h, self, "FRONT"), BACK |-> heap_face(h, self, "BACK"),
                LEFT |-> heap_face(h, self, "LEFT"), RIGHT |-> heap_face(h, self, "RIGHT"),
                UP |-> heap_face(h, self, "UP"), DOWN |-> heap_face(h, self, "DOWN")],
     move_history |-> h[self.history]]

\* the addresses a cube object holds
addresses(self) ==
    {self.history} \cup {self.rows[face][row] : face \in Face, row \in 0..2}

\* the in-place writes of apply_move and the methods it calls: every store is
\* self.faces[face][row][col] = ... or self.move_history.append(...), so the
\* lists of self take their new contents where they are
store(h, self, value) ==
    [h EXCEPT ![self.rows["FRONT"][0]] = value.faces["FRONT"][0],
              ![self.rows["FRONT"][1]] = value.faces["FRONT"][1],
              ![self.rows["FRONT"][2]] = value.faces["FRONT"][2],
              ![self.rows["BACK"][0]] = value.faces["BACK"][0],
              ![self.rows["BACK"][1]] = value.faces["BACK"][1],
              ![self.rows["BACK"][2]] = value.faces["BACK"][2],
              ![self.rows["LEFT"][0]] = value.faces["LEFT"][0],
              ![self.rows["LEFT"][1]] = value.faces["LEFT"][1],
              ![self.rows["LEFT"][2]] = value.faces["LEFT"][2],
              ![self.rows["RIGHT"][0]] = value.faces["RIGHT"][0],
              ![self.rows["RIGHT"][1]] = value.faces["RIGHT"][1],
              ![self.rows["RIGHT"][2]] = value.faces["RIGHT"][2],
              ![self.rows["UP"][0]] = value.faces["UP"][0],
              ![self.rows["UP"][1]] = value.faces["UP"][1],
              ![self.rows["UP"][2]] = value.faces["UP"][2],
              ![self.rows["DOWN"][0]] = value.faces["DOWN"][0],
              ![self.rows["DOWN"][1]] = value.faces["DOWN"][1],
              ![self.rows["DOWN"][2]] = value.faces["DOWN"][2],
              ![self.history] = value.move_history]

\* RubiksCube.__init__ on an object: self.faces and self.move_history are
\* bound to new lists
heap_init(h) == [heap |-> h \o new_lists(RubiksCube), self |-> object_at(Len(h))]

\* apply_move on a cube object
heap_apply_move(h, self, move, track_history) ==
    store(h, self, apply_move(deref(h, self), move, track_history))

\* scramble on a cube object
heap_scramble(h, self, picks) == store(h, self, scramble(deref(h, self), picks).cube)

\* a copy whose faces are the original's own lists
heap_copy_shares_rows(h, self) ==
    LET constructed == heap_init(h)
    IN  [heap |-> constructed.heap \o <<h[self.history]>>,
         self |-> [rows |-> self.rows, history |-> Len(constructed.heap) + 1]]

\* RubiksCube.copy on a cube object: RubiksCube() builds new_cube, then each
\* face is bound to a new list of new rows (row[:]) and the history to
\* self.move_history.copy(); the lists the constructor made are dropped
heap_copy(h, self) ==
    LET constructed == heap_init(h)
    IN  [heap |-> constructed.heap \o new_lists(deref(h, self)),
         self |-> object_at(Len(constructed.heap))]

(***************************************************************************)
(* CubeSolver                                                              *)
(***************************************************************************)

\* Python's None and a list, as one kind of value
None == [is_none |-> TRUE, moves |-> <<>>]

List(moves) == [is_none |-> FALSE, moves |-> moves]

\* `if x:` for x a list or None
Truthy(x) == ~x.is_none /\ x.moves # <<>>

\* the characters str.strip() and str.split() treat as white space
Whitespace == {" ", "\t", "\n"}

\* str.split(): the maximal runs of non-white-space characters, left to right
RECURSIVE split_from(_, _, _, _)
split_from(text, i, word, words) ==
    IF i > Len(text)
    THEN IF word = "" THEN words ELSE Append(words, word)
    ELSE LET ch == SubSeq(text, i, i)
         IN  IF ch \in Whitespace
             THEN split_from(text, i + 1, "", IF word = "" THEN words ELSE Append(words, word))
             ELSE split_from(text, i + 1, word \o ch, words)

\* solution_string.strip().split()
strip_split(text) == split_from(text, 1, "", <<>>)

\* apply_moves that drops its track_history argument, so that apply_move's
\* default applies
apply_moves_default_tracking(self, moves_string, track_history) ==
    apply_each(self, strip_split(moves_string), TRUE)

\* RubiksCube.apply_moves: str.split() without arguments, which drops leading and
\* trailing whitespace as well, then apply_move on each piece
apply_moves(self, moves_string, track_history) ==
    apply_each(self, strip_split(moves_string), track_history)

\* solution_string.strip() is non-empty
strip_nonempty(text) == \E i \in 1..Len(text) : SubSeq(text, i, i) \notin Whitespace

\* get_kociemba_string's loops over one face: the letters of its nine facelets
kociemba_face(rows) ==
    face_string([r \in 0..2 |-> [c \in 0..2 |-> kociemba_letter(rows[r][c])]])

\* RubiksCube.get_kociemba_string
get_kociemba_string(self, available) ==
    IF ~available
    THEN [is_none |-> TRUE, text |-> ""]
    ELSE [is_none |-> FALSE,
          text |-> kociemba_face(self.faces["UP"]) \o kociemba_face(self.faces["RIGHT"])
                     \o kociemba_face(self.faces["FRONT"]) \o kociemba_face(self.faces["DOWN"])
                     \o kociemba_face(self.faces["LEFT"]) \o kociemba_face(self.faces["BACK"])]

\* a validation loop that skips the tokens it does not know
RECURSIVE validate_moves_skipping(_, _)
validate_moves_skipping(moves, valid_moves) ==
    IF moves = <<>>
    THEN List(valid_moves)
    ELSE validate_moves_skipping(Tail(moves),
                                 IF Head(moves) \in DOMAIN move_map
                                 THEN Append(valid_moves, Head(moves))
                                 ELSE valid_moves)

\* solve_kociemba's validation loop: every token must be a key of move_map
RECURSIVE validate_moves(_, _)
validate_moves(moves, valid_moves) ==
    IF moves = <<>>
    THEN List(valid_moves)
    ELSE IF Head(moves) \in DOMAIN move_map
         THEN validate_moves(Tail(moves), Append(valid_moves, Head(moves)))
         ELSE None

\* CubeSolver.solve_kociemba; answer is what kociemba.solve does when called:
\* [raises |-> TRUE] or [raises |-> FALSE, text |-> the returned string]
solve_kociemba(cb, available, answer) ==
    IF ~available
    THEN None
    ELSE LET cube_string == get_kociemba_string(cb, available)
         IN  IF cube_string.is_none \/ cube_string.text = "" \/ Len(cube_string.text) # 54
             THEN None
             ELSE IF answer.raises
                  THEN None
                  ELSE IF answer.text = ""
                       THEN List(<<>>)
                       ELSE IF strip_nonempty(answer.text)
                            THEN validate_moves(strip_split(answer.text), <<>>)
                            ELSE None

\* a check of a candidate that accepts it without replaying it
replay_unverified(cb, candidate) == TRUE

\* solve_cube's check of a candidate: replay on a copy, untracked, then is_solved
replay_solves(cb, candidate) == is_solved(apply_each(copy(cb), candidate, FALSE))

\* solve_bfs.max_nodes: 100000 in the code, scaled down here so that searches
\* two moves deep both fit in the budget and run out of it
max_nodes == 4

\* the time_limit solve_cube passes to solve_bfs
time_limit == 5

\* solve_bfs before its loop: the queue holds the start, visited its string.
\* enqueued and expanded keep, in order, every node ever appended to the queue
\* and the grid of every node the `for move` loop was run on
bfs_start(cb) ==
    [queue |-> <<[cube |-> copy(cb), moves |-> <<>>]>>,
     visited |-> {get_state_string(cb)},
     nodes_explored |-> 0,
     stopped |-> "running",
     solution |-> None,
     enqueued |-> <<[state |-> get_state_string(cb), moves |-> <<>>]>>,
     expanded |-> <<>>]

\* the `for move` loop without the test against visited
RECURSIVE bfs_expand_revisits(_, _, _, _)
bfs_expand_revisits(b, current_cube, moves, k) ==
    IF k > Len(moves_list)
    THEN b
    ELSE LET move == moves_list[k]
             new_cube == apply_move(copy(current_cube), move, FALSE)
             state == get_state_string(new_cube)
         IN  IF is_solved(new_cube)
             THEN [b EXCEPT !.stopped = "found", !.solution = List(Append(moves, move))]
             ELSE bfs_expand_revisits([b EXCEPT !.visited = @ \cup {state},
                                                !.queue = Append(@, [cube |-> new_cube,
                                                                     moves |-> Append(moves, move)]),
                                                !.enqueued = Append(@, [state |-> state,
                                                                        moves |-> Append(moves, move)])],
                                      current_cube, moves, k + 1)

\* solve_bfs's `for move in self.moves` over one dequeued node, from the k-th move on
RECURSIVE bfs_expand(_, _, _, _)
bfs_expand(b, current_cube, moves, k) ==
    IF k > Len(moves_list)
    THEN b
    ELSE LET move == moves_list[k]
             new_cube == apply_move(copy(current_cube), move, FALSE)
             state == get_state_string(new_cube)
         IN  IF is_solved(new_cube)
             THEN [b EXCEPT !.stopped = "found", !.solution = List(Append(moves, move))]
             ELSE IF state \notin b.visited
                  THEN bfs_expand([b EXCEPT !.visited = @ \cup {state},
                                            !.queue = Append(@, [cube |-> new_cube,
                                                                 moves |-> Append(moves, move)]),
                                            !.enqueued = Append(@, [state |-> state,
                                                                    moves |-> Append(moves, move)])],
                                  current_cube, moves, k + 1)
                  ELSE bfs_expand(b, current_cube, moves, k + 1)

\* one pass of the while loop that stops expanding one level too early
bfs_step_shallow(b, the_max_depth, the_time_limit, timeout_at, node_limit) ==
    IF b.queue = <<>>
    THEN [b EXCEPT !.stopped = "exhausted"]
    ELSE IF the_time_limit # 0 /\ timeout_at >= 0 /\ b.nodes_explored >= timeout_at
    THEN [b EXCEPT !.stopped = "timeout"]
    ELSE IF b.nodes_explored > node_limit
    THEN [b EXCEPT !.stopped = "node_limit"]
    ELSE LET current == Head(b.queue)
             b1 == [b EXCEPT !.queue = Tail(@), !.nodes_explored = @ + 1]
         IN  IF Len(current.moves) + 1 >= the_max_depth
             THEN b1
             ELSE bfs_expand([b1 EXCEPT !.expanded = Append(@, get_state_string(current.cube))],
                             current.cube, current.moves, 1)

\* one pass of solve_bfs's while loop.  timeout_at is the number of nodes
\* explored when the clock first reads past the time limit (-1: it never does)
bfs_step(b, the_max_depth, the_time_limit, timeout_at, node_limit) ==
    IF b.queue = <<>>
    THEN [b EXCEPT !.stopped = "exhausted"]
    ELSE IF the_time_limit # 0 /\ timeout_at >= 0 /\ b.nodes_explored >= timeout_at
    THEN [b EXCEPT !.stopped = "timeout"]
    ELSE IF b.nodes_explored > node_limit
    THEN [b EXCEPT !.stopped = "node_limit"]
    ELSE LET current == Head(b.queue)
             b1 == [b EXCEPT !.queue = Tail(@), !.nodes_explored = @ + 1]
         IN  IF Len(current.moves) >= the_max_depth
             THEN b1
             ELSE bfs_expand([b1 EXCEPT !.expanded = Append(@, get_state_string(current.cube))],
                             current.cube, current.moves, 1)

\* solve_bfs's while loop, run until it returns
RECURSIVE bfs_loop(_, _, _, _, _)
bfs_loop(b, the_max_depth, the_time_limit, timeout_at, node_limit) ==
    IF b.stopped # "running"
    THEN b
    ELSE bfs_loop(bfs_step(b, the_max_depth, the_time_limit, timeout_at, node_limit),
                  the_max_depth, the_time_limit, timeout_at, node_limit)

\* CubeSolver.solve_bfs: the returned value (solution) with how the search
\* stopped and how many nodes it explored
solve_bfs(cb, the_max_depth, the_time_limit, timeout_at) ==
    IF is_solved(cb)
    THEN [solution |-> List(<<>>), stopped |-> "solved", nodes_explored |-> 0]
    ELSE LET b == bfs_loop(bfs_start(cb), the_max_depth, the_time_limit, timeout_at, max_nodes)
         IN  [solution |-> b.solution, stopped |-> b.stopped, nodes_explored |-> b.nodes_explored]

\* solve_cube's max_search_depth
max_search_depth(cb) ==
    IF cb.move_history # <<>>
    THEN IF 12 < Len(cb.move_history) + 6 THEN 12 ELSE Len(cb.move_history) + 6
    ELSE 8

(***************************************************************************)
(* CubeSolver on cube objects: what solve_cube does to the lists           *)
(***************************************************************************)

\* test_cube.apply_move(move, track_history=False) for each move of a list
RECURSIVE heap_apply_each(_, _, _)
heap_apply_each(h, self, moves) ==
    IF moves = <<>>
    THEN h
    ELSE heap_apply_each(heap_apply_move(h, self, Head(moves), FALSE), self, Tail(moves))

\* a replay that applies the candidate to the cube it was given
heap_replay_on_self(h, self, moves) ==
    [heap |-> heap_apply_each(h, self, moves), self |-> self]

\* solve_cube's check of a candidate on objects: test_cube = cube.copy(), then
\* the moves on test_cube
heap_replay(h, self, moves) ==
    LET test_cube == heap_copy(h, self)
    IN  [heap |-> heap_apply_each(test_cube.heap, test_cube.self, moves), self |-> test_cube.self]

\* the moves the search tries on cube objects, a part of CubeSolver.moves
moves_on_heap == <<"R", "U'">>

\* solve_bfs's `for move in self.moves` on objects, from the k-th move on:
\* new_cube = current_cube.copy(), then the move on new_cube
RECURSIVE heap_bfs_expand(_, _, _)
heap_bfs_expand(h, current_cube, k) ==
    IF k > Len(moves_on_heap)
    THEN [heap |-> h, solution |-> None]
    ELSE LET new_cube == heap_copy(h, current_cube)
             h1 == heap_apply_move(new_cube.heap, new_cube.self, moves_on_heap[k], FALSE)
         IN  IF is_solved(deref(h1, new_cube.self))
             THEN [heap |-> h1, solution |-> List(<<moves_on_heap[k]>>)]
             ELSE heap_bfs_expand(h1, current_cube, k + 1)

\* solve_bfs at max_depth=1 on objects: the queue starts with cube.copy()
heap_solve_bfs(h, self) ==
    IF is_solved(deref(h, self))
    THEN [heap |-> h, solution |-> List(<<>>)]
    ELSE LET start == heap_copy(h, self)
         IN  heap_bfs_expand(start.heap, start.self, 1)

\* solve_cube's method 3 on objects, run at its first ceiling: the heap
\* afterwards and the returned list, [] when the search found nothing
heap_search(bfs_solution) ==
    [heap |-> bfs_solution.heap,
     solution |-> IF Truthy(bfs_solution.solution) THEN bfs_solution.solution.moves ELSE <<>>]

\* method 2 after the replay of the external answer on test_cube
heap_external_checked(self, kociemba_solution, test_cube) ==
    IF is_solved(deref(test_cube.heap, test_cube.self))
    THEN [heap |-> test_cube.heap, solution |-> kociemba_solution.moves]
    ELSE heap_search(heap_solve_bfs(test_cube.heap, self))

\* method 2 on objects: the external answer, when there is one, is replayed
\* on a copy
heap_external(h, self, kociemba_solution) ==
    IF Truthy(kociemba_solution)
    THEN heap_external_checked(self, kociemba_solution, heap_replay(h, self, kociemba_solution.moves))
    ELSE heap_search(heap_solve_bfs(h, self))

\* method 1 after the replay of the reversed history on test_cube
heap_reverse_checked(self, perfect_solution, test_cube, available, answer) ==
    IF is_solved(deref(test_cube.heap, test_cube.self))
    THEN [heap |-> test_cube.heap, solution |-> perfect_solution]
    ELSE heap_external(test_cube.heap, self,
                       solve_kociemba(deref(test_cube.heap, self), available, answer))

\* solve_cube on a cube object: the heap afterwards and the returned list
heap_solve_cube(h, self, available, answer) ==
    IF is_solved(deref(h, self))
    THEN [heap |-> h, solution |-> <<>>]
    ELSE IF deref(h, self).move_history # <<>>
    THEN heap_reverse_checked(self, get_perfect_solution(deref(h, self)),
                              heap_replay(h, self, get_perfect_solution(deref(h, self))),
                              available, answer)
    ELSE heap_external(h, self, solve_kociemba(deref(h, self), available, answer))

(***************************************************************************)
(* Bounds                                                                  *)
(***************************************************************************)

\* at most this many moves are applied to a cube between two resets
MaxCalls == 2

\* tokens outside the canonical twelve that callers may pass
BadTokens == {"F2", "X", ""}

\* the moves that set a cube up before the solver is called on it: those
\* applied with track_history=True and those applied with track_history=False
SetupTracked == {"R'", "B"}

SetupUntracked == {"R", "B"}

\* the histories a caller builds up with further tracked moves once the small
\* set-up is used: long enough for max_search_depth to go past len + 6 = 8
LongHistories == {<<"B", "B">>, <<"B", "B", "R'">>}

\* the strings apply_moves is given
MovesTexts == {"", "F R'", " U\tB'\n", "R X L'"}

\* the indices random.choice draws from move_options in scramble: F, R', B, B'
PickChoices == {1, 4, 11, 12}

\* the draws of one scramble call with at most n rounds
ScramblePicks(n) == UNION {[1..k -> PickChoices] : k \in 0..n}

\* what kociemba.solve may answer: the strings it may return
KociembaTexts == {"", " ", "R'", " B'  R ", "R U2"}

\* what kociemba.solve may do: raise, or return one of the strings
KociembaAnswers ==
    {[raises |-> TRUE, text |-> ""]} \cup {[raises |-> FALSE, text |-> t] : t \in KociembaTexts}

\* when the time limit may strike during one solve_bfs call: never (-1), or
\* at the loop check that sees this many nodes explored
TimeoutChoices == {-1, 0, 1}

(***************************************************************************)
(* Construction                                                            *)
(***************************************************************************)

\* the module's import of kociemba, CubeDisplay.__init__ and RubiksCube.__init__
Init ==
    /\ cube = RubiksCube
    /\ untracked = 0
    /\ KOCIEMBA_AVAILABLE \in BOOLEAN
    /\ pc = "idle"
    /\ solution = <<>>
    /\ max_depth = 0
    /\ log = <<>>
    /\ bfs_stopped = "none"
    /\ solve_status = <<"">>
    /\ move_queue = <<>>
    /\ current_move_index = 0
    /\ animating = FALSE
    /\ animation_ticks = 0
    /\ solving = FALSE
    /\ running = TRUE
    /\ input_pc = "loop"
    /\ heap = <<>>
    /\ cubes = [original |-> NoCube, duplicate |-> NoCube]
    /\ expected = [original |-> RubiksCube, duplicate |-> RubiksCube]
    /\ copy_ops = 0
    /\ returned = None
    /\ history_at_call = <<>>

(***************************************************************************)
(* The cube driven through its public operations                           *)
(***************************************************************************)

\* cube.apply_move(move, track_history) with a canonical token
ApplyMove ==
    \E move \in Moves, track_history \in BOOLEAN :
        /\ Len(cube.move_history) + untracked < MaxCalls
        /\ cube' = apply_move(cube, move, track_history)
        /\ untracked' = IF track_history THEN untracked ELSE untracked + 1
        /\ UNCHANGED <<KOCIEMBA_AVAILABLE, history_at_call, copyVars, solverVars, solve_status, displayVars>>

\* cube.apply_move(move, track_history) with a token outside the twelve
ApplyBadToken ==
    \E move \in BadTokens, track_history \in BOOLEAN :
        /\ cube' = apply_move(cube, move, track_history)
        /\ UNCHANGED <<untracked, KOCIEMBA_AVAILABLE, history_at_call, copyVars, solverVars, solve_status, displayVars>>

\* cube.reset_to_solved()
Reset ==
    /\ cube' = reset_to_solved(cube)
    /\ untracked' = 0
    /\ UNCHANGED <<KOCIEMBA_AVAILABLE, history_at_call, copyVars, solverVars, solve_status, displayVars>>

\* cube.apply_moves(moves_string, track_history)
ApplyMoves ==
    \E moves_string \in MovesTexts, track_history \in BOOLEAN :
        LET applied == Len(apply_moves(cube, moves_string, TRUE).move_history)
                           - Len(cube.move_history)
        IN  /\ Len(cube.move_history) + untracked + applied <= MaxCalls
            /\ cube' = apply_moves(cube, moves_string, track_history)
            /\ untracked' = IF track_history THEN untracked ELSE untracked + applied
            /\ UNCHANGED <<KOCIEMBA_AVAILABLE, history_at_call, copyVars, solverVars, solve_status, displayVars>>

\* cube.scramble(moves), moves being the number of draws
Scramble ==
    \E picks \in ScramblePicks(MaxCalls - (Len(cube.move_history) + untracked)) :
        /\ cube' = scramble(cube, picks).cube
        /\ UNCHANGED <<untracked, KOCIEMBA_AVAILABLE, history_at_call, copyVars, solverVars, solve_status, displayVars>>

Next == ApplyMove \/ ApplyBadToken \/ ApplyMoves \/ Scramble \/ Reset

Spec == Init /\ [][Next]_vars

(***************************************************************************)
(* A cube and its copy, operated on in turn                                *)
(***************************************************************************)

\* the calls made on the two cubes in one run
MaxCopyOps == MaxCalls + 1

\* the moves applied to the two cubes
CopyMoves == {"R", "U"}

\* the draws of the scrambles of the two cubes: R', and B' B
CopyPicks == {<<4>>, <<12, 11>>}

\* the two cubes
Targets == {"original", "duplicate"}

\* original = RubiksCube()
Construct ==
    /\ cubes.original = NoCube
    /\ heap' = heap_init(heap).heap
    /\ cubes' = [cubes EXCEPT !.original = heap_init(heap).self]
    /\ expected' = [expected EXCEPT !.original = RubiksCube]
    /\ UNCHANGED <<cubeVars, KOCIEMBA_AVAILABLE, history_at_call, solverVars, solve_status, displayVars, returned, copy_ops>>

\* duplicate = original.copy()
CopyCube ==
    /\ cubes.original # NoCube
    /\ cubes.duplicate = NoCube
    /\ heap' = heap_copy(heap, cubes.original).heap
    /\ cubes' = [cubes EXCEPT !.duplicate = heap_copy(heap, cubes.original).self]
    /\ expected' = [expected EXCEPT !.duplicate = copy(expected.original)]
    /\ UNCHANGED <<cubeVars, KOCIEMBA_AVAILABLE, history_at_call, solverVars, solve_status, displayVars, returned, copy_ops>>

\* apply_move on one of the two
CopyApplyMove ==
    \E target \in Targets, move \in CopyMoves, track_history \in BOOLEAN :
        /\ cubes[target] # NoCube
        /\ copy_ops < MaxCopyOps
        /\ copy_ops' = copy_ops + 1
        /\ heap' = heap_apply_move(heap, cubes[target], move, track_history)
        /\ expected' = [expected EXCEPT ![target] = apply_move(@, move, track_history)]
        /\ UNCHANGED <<cubeVars, KOCIEMBA_AVAILABLE, history_at_call, solverVars, solve_status, displayVars, returned, cubes>>

\* scramble on one of the two
CopyScramble ==
    \E target \in Targets, picks \in CopyPicks :
        /\ cubes[target] # NoCube
        /\ copy_ops < MaxCopyOps
        /\ copy_ops' = copy_ops + 1
        /\ heap' = heap_scramble(heap, cubes[target], picks)
        /\ expected' = [expected EXCEPT ![target] = scramble(@, picks).cube]
        /\ UNCHANGED <<cubeVars, KOCIEMBA_AVAILABLE, history_at_call, solverVars, solve_status, displayVars, returned, cubes>>

\* reset_to_solved on one of the two
CopyReset ==
    \E target \in Targets :
        /\ cubes[target] # NoCube
        /\ copy_ops < MaxCopyOps
        /\ copy_ops' = copy_ops + 1
        /\ heap' = heap_init(heap).heap
        /\ cubes' = [cubes EXCEPT ![target] = heap_init(heap).self]
        /\ expected' = [expected EXCEPT ![target] = reset_to_solved(@)]
        /\ UNCHANGED <<cubeVars, KOCIEMBA_AVAILABLE, history_at_call, solverVars, solve_status, displayVars, returned>>

\* what kociemba.solve does when the solver is run on the cube objects
AnswersOnHeap == {[raises |-> TRUE, text |-> ""], [raises |-> FALSE, text |-> "R'"]}

\* solver.solve_cube(original), before any copy of it is taken.  The cubes the
\* solver made are gone when it returns: what stays of the heap is the part
\* that was there at the call
CopySolve ==
    \E answer \in (IF KOCIEMBA_AVAILABLE THEN AnswersOnHeap ELSE {[raises |-> TRUE, text |-> ""]}) :
        /\ cubes.original # NoCube
        /\ cubes.duplicate = NoCube
        /\ copy_ops < MaxCopyOps
        /\ copy_ops' = copy_ops + 1
        /\ \E result \in {heap_solve_cube(heap, cubes.original, KOCIEMBA_AVAILABLE, answer)} :
              /\ heap' = SubSeq(result.heap, 1, Len(heap))
              /\ returned' = List(result.solution)
        /\ UNCHANGED <<cubeVars, KOCIEMBA_AVAILABLE, history_at_call, solverVars, solve_status,
                       displayVars, cubes, expected>>

CopyNext == Construct \/ CopyCube \/ CopyApplyMove \/ CopyScramble \/ CopyReset \/ CopySolve

CopySpec == Init /\ [][CopyNext]_vars

(***************************************************************************)
(* CubeSolver.solve_cube, strategy by strategy                             *)
(***************************************************************************)

\* one entry of the log: a strategy that ran, with the candidate it produced
Ran(strategy, depth, candidate) ==
    [strategy |-> strategy, depth |-> depth, candidate |-> candidate]

\* the log entry of the external solver, with what kociemba.solve answered
RanExternal(candidate, answer) ==
    [strategy |-> "external", depth |-> 0, candidate |-> candidate, answer |-> answer]

\* the progress message TryReverse leaves behind when its candidate verifies:
\* the last i with i % 50 == 0 wrote int((i / len) * 100)
verifying_status(n) ==
    <<"Verifying solution...", ((50 * ((n - 1) \div 50)) * 100) \div n>>

\* the progress message one solve_bfs call leaves behind
searching_status(depth, limit, nodes_explored) ==
    IF nodes_explored >= 5000
    THEN <<"Analyzing possibilities...", ((5000 * (nodes_explored \div 5000)) * 100) \div max_nodes>>
    ELSE <<"Searching optimal paths...", (depth * 100) \div limit>>

\* a cube set up for the solver: a move of the small sets, tracked or not
SetupMove ==
    \E track_history \in BOOLEAN :
      \E move \in (IF track_history THEN SetupTracked ELSE SetupUntracked) :
        /\ pc = "idle"
        /\ Len(cube.move_history) + untracked < MaxCalls
        /\ cube' = apply_move(cube, move, track_history)
        /\ untracked' = IF track_history THEN untracked ELSE untracked + 1
        /\ UNCHANGED <<KOCIEMBA_AVAILABLE, history_at_call, copyVars, solverVars, solve_status, displayVars>>

\* a cube set up further: cube.apply_move(move) towards one of the long histories
SetupLongHistory ==
    \E move \in Moves :
        /\ pc = "idle"
        /\ Len(cube.move_history) + untracked >= MaxCalls
        /\ Append(cube.move_history, move) \in LongHistories
        /\ cube' = apply_move(cube, move, TRUE)
        /\ UNCHANGED <<untracked, KOCIEMBA_AVAILABLE, history_at_call, copyVars, solverVars, solve_status, displayVars>>

\* a caller invokes solver.solve_cube(cube)
Invoke ==
    /\ pc = "idle"
    /\ pc' = "call"
    /\ solution' = <<>>
    /\ max_depth' = 0
    /\ log' = <<>>
    /\ bfs_stopped' = "none"
    /\ history_at_call' = cube.move_history
    /\ UNCHANGED <<cubeVars, KOCIEMBA_AVAILABLE, copyVars, solve_status, displayVars>>

\* solve_cube without its is_solved check
SolveEntry_unchecked ==
    /\ pc = "call"
    /\ solve_status' = <<"Analyzing cube state...">>
    /\ pc' = "reverse"
    /\ UNCHANGED <<cubeVars, KOCIEMBA_AVAILABLE, history_at_call, copyVars, solution, max_depth, log, bfs_stopped, displayVars>>

\* solve_cube, up to its is_solved check
SolveEntry ==
    /\ pc = "call"
    /\ solve_status' = <<"Analyzing cube state...">>
    /\ IF is_solved(cube)
       THEN /\ pc' = "done"
            /\ solution' = <<>>
       ELSE /\ pc' = "reverse"
            /\ UNCHANGED solution
    /\ UNCHANGED <<cubeVars, KOCIEMBA_AVAILABLE, history_at_call, copyVars, max_depth, log, bfs_stopped, displayVars>>

\* method 1 that falls through to method 2 after its candidate has verified
TryReverse_falls_through ==
    /\ pc = "reverse"
    /\ pc' = "external"
    /\ IF cube.move_history # <<>>
       THEN LET perfect_solution == get_perfect_solution(cube)
            IN  /\ log' = Append(log, Ran("reverse", 0, List(perfect_solution)))
                /\ IF replay_solves(cube, perfect_solution)
                   THEN /\ solution' = perfect_solution
                        /\ solve_status' = verifying_status(Len(perfect_solution))
                   ELSE /\ solve_status' = <<"Primary method failed, trying advanced algorithms...">>
                        /\ UNCHANGED solution
       ELSE UNCHANGED <<log, solution, solve_status>>
    /\ UNCHANGED <<cubeVars, KOCIEMBA_AVAILABLE, history_at_call, copyVars, max_depth, bfs_stopped, displayVars>>

\* solve_cube, method 1: the reversed history, verified on a copy
TryReverse ==
    /\ pc = "reverse"
    /\ IF cube.move_history # <<>>
       THEN LET perfect_solution == get_perfect_solution(cube)
            IN  /\ log' = Append(log, Ran("reverse", 0, List(perfect_solution)))
                /\ IF replay_solves(cube, perfect_solution)
                   THEN /\ pc' = "done"
                        /\ solution' = perfect_solution
                        /\ solve_status' = verifying_status(Len(perfect_solution))
                   ELSE /\ pc' = "external"
                        /\ solve_status' = <<"Primary method failed, trying advanced algorithms...">>
                        /\ UNCHANGED solution
       ELSE /\ pc' = "external"
            /\ UNCHANGED <<log, solution, solve_status>>
    /\ UNCHANGED <<cubeVars, KOCIEMBA_AVAILABLE, history_at_call, copyVars, max_depth, bfs_stopped, displayVars>>

\* method 2 that returns [] when the external solver gave nothing usable
TryExternal_gives_up ==
    /\ pc = "external"
    /\ IF KOCIEMBA_AVAILABLE
       THEN \E answer \in KociembaAnswers :
                \E kociemba_solution \in {solve_kociemba(cube, KOCIEMBA_AVAILABLE, answer)} :
                    /\ log' = Append(log, RanExternal(kociemba_solution, answer))
                    /\ IF Truthy(kociemba_solution)
                          /\ replay_solves(cube, kociemba_solution.moves)
                       THEN /\ pc' = "done"
                            /\ solution' = kociemba_solution.moves
                            /\ solve_status' = <<"Verifying advanced solution...">>
                            /\ UNCHANGED max_depth
                       ELSE /\ pc' = IF Truthy(kociemba_solution) THEN "search" ELSE "done"
                            /\ max_depth' = 1
                            /\ solve_status' = <<"Searching for optimal solution...">>
                            /\ UNCHANGED solution
       ELSE /\ pc' = "search"
            /\ max_depth' = 1
            /\ solve_status' = <<"Searching for optimal solution...">>
            /\ UNCHANGED <<log, solution>>
    /\ UNCHANGED <<cubeVars, KOCIEMBA_AVAILABLE, history_at_call, copyVars, bfs_stopped, displayVars>>

\* solve_cube, method 2: the external solver when it is available, its answer
\* verified on a copy; then the set-up of the search
TryExternal ==
    /\ pc = "external"
    /\ IF KOCIEMBA_AVAILABLE
       THEN \E answer \in KociembaAnswers :
                \E kociemba_solution \in {solve_kociemba(cube, KOCIEMBA_AVAILABLE, answer)} :
                    /\ log' = Append(log, RanExternal(kociemba_solution, answer))
                    /\ IF Truthy(kociemba_solution)
                          /\ replay_solves(cube, kociemba_solution.moves)
                       THEN /\ pc' = "done"
                            /\ solution' = kociemba_solution.moves
                            /\ solve_status' = <<"Verifying advanced solution...">>
                            /\ UNCHANGED max_depth
                       ELSE /\ pc' = "search"
                            /\ max_depth' = 1
                            /\ solve_status' = <<"Searching for optimal solution...">>
                            /\ UNCHANGED solution
       ELSE /\ pc' = "search"
            /\ max_depth' = 1
            /\ solve_status' = <<"Searching for optimal solution...">>
            /\ UNCHANGED <<log, solution>>
    /\ UNCHANGED <<cubeVars, KOCIEMBA_AVAILABLE, history_at_call, copyVars, bfs_stopped, displayVars>>

\* method 3 that returns [] as soon as a search ran out of its budget
TrySearch_gives_up_on_budget ==
    /\ pc = "search"
    /\ max_depth <= max_search_depth(cube)
    /\ \E timeout_at \in TimeoutChoices :
          \E r \in {solve_bfs(cube, max_depth, time_limit, timeout_at)} :
              /\ log' = Append(log, Ran("bfs", max_depth, r.solution))
              /\ bfs_stopped' = r.stopped
              /\ solve_status' = searching_status(max_depth, max_search_depth(cube), r.nodes_explored)
              /\ IF Truthy(r.solution)
                 THEN /\ pc' = "done"
                      /\ solution' = r.solution.moves
                      /\ UNCHANGED max_depth
                 ELSE IF r.stopped \in {"timeout", "node_limit"}
                      THEN /\ pc' = "done"
                           /\ solution' = <<>>
                           /\ UNCHANGED max_depth
                      ELSE /\ max_depth' = max_depth + 1
                           /\ UNCHANGED <<pc, solution>>
    /\ UNCHANGED <<cubeVars, KOCIEMBA_AVAILABLE, history_at_call, copyVars, displayVars>>

\* solve_cube, method 3: one pass of `for max_depth in range(1, max_search_depth + 1)`
TrySearch ==
    /\ pc = "search"
    /\ max_depth <= max_search_depth(cube)
    /\ \E timeout_at \in TimeoutChoices :
          \E r \in {solve_bfs(cube, max_depth, time_limit, timeout_at)} :
              /\ log' = Append(log, Ran("bfs", max_depth, r.solution))
              /\ bfs_stopped' = r.stopped
              /\ solve_status' = searching_status(max_depth, max_search_depth(cube), r.nodes_explored)
              /\ IF Truthy(r.solution)
                 THEN /\ pc' = "done"
                      /\ solution' = r.solution.moves
                      /\ UNCHANGED max_depth
                 ELSE /\ max_depth' = max_depth + 1
                      /\ UNCHANGED <<pc, solution>>
    /\ UNCHANGED <<cubeVars, KOCIEMBA_AVAILABLE, history_at_call, copyVars, displayVars>>

\* solve_cube, method 4: every depth ceiling has been tried; give up with []
GiveUp ==
    /\ pc = "search"
    /\ max_depth > max_search_depth(cube)
    /\ pc' = "done"
    /\ solution' = <<>>
    /\ solve_status' = <<"Could not find solution for current cube state">>
    /\ UNCHANGED <<cubeVars, KOCIEMBA_AVAILABLE, history_at_call, copyVars, max_depth, log, bfs_stopped, displayVars>>

SolveStep == SolveEntry \/ TryReverse \/ TryExternal \/ TrySearch \/ GiveUp

SolverNext ==
    \/ SetupMove \/ SetupLongHistory \/ Invoke
    \/ SolveEntry \/ TryReverse \/ TryExternal \/ TrySearch \/ GiveUp

SolverSpec == Init /\ [][SolverNext]_vars

(***************************************************************************)
(* CubeDisplay: the main loop and the solver thread                        *)
(***************************************************************************)

\* CubeDisplay.max_animation_ticks
max_animation_ticks == 4

\* the histories the keys build up between two solved cubes
KeyHistories ==
    {<<"R'">>, <<"B">>, <<"R'", "B">>, <<"B", "B'">>}

\* what solve_thread writes when solve_cube returned nothing
NoSolutionStatus == <<"No solution found - cube may be in impossible state">>

\* process_animation's status while moves remain: the percentage and the
\* number of filled blocks of the 20-block bar
executing_status(completed, total) ==
    LET progress_percent == (completed * 100) \div total
        filled_blocks == IF progress_percent = 0
                         THEN 0
                         ELSE IF (progress_percent * 20) \div 100 < 1
                              THEN 1
                              ELSE (progress_percent * 20) \div 100
    IN  <<"Executing magic...", progress_percent, filled_blocks>>

\* solve_thread's loop: the move_map entry of each move that has one
RECURSIVE to_move_queue(_)
to_move_queue(moves) ==
    IF moves = <<>>
    THEN <<>>
    ELSE IF Head(moves) \in DOMAIN move_map
         THEN <<move_map[Head(moves)]>> \o to_move_queue(Tail(moves))
         ELSE to_move_queue(Tail(moves))

\* the draws of the scramble key that keep the history within KeyHistories
\* (the key scrambles with 25 draws; here with two): R' B and B B'
ScrambleKeyPicks == {<<4, 11>>, <<11, 12>>}

\* handle_input, KEYDOWN: `self.animating` is read, the first operand of
\* `self.animating or self.solving`; the event is ignored when it is true
KeyDown ==
    /\ running
    /\ input_pc = "loop"
    /\ input_pc' = IF animating THEN "loop" ELSE "solving"
    /\ UNCHANGED <<cubeVars, KOCIEMBA_AVAILABLE, history_at_call, copyVars, solverVars, solve_status, move_queue,
                   current_move_index, animating, animation_ticks, solving, running>>

\* a move key that empties the history when its move leaves the cube solved
KeyMove_clears_when_solved ==
    \E move \in Moves :
        /\ running
        /\ input_pc = "solving"
        /\ input_pc' = "loop"
        /\ IF solving
           THEN UNCHANGED <<cube, solve_status>>
           ELSE /\ Append(cube.move_history, move) \in KeyHistories
                /\ cube' = IF is_solved(apply_move(cube, move, TRUE))
                           THEN [apply_move(cube, move, TRUE) EXCEPT !.move_history = <<>>]
                           ELSE apply_move(cube, move, TRUE)
                /\ solve_status' = <<"Applied", move>>
        /\ UNCHANGED <<untracked, KOCIEMBA_AVAILABLE, history_at_call, copyVars, solverVars, move_queue,
                       current_move_index, animating, animation_ticks, solving, running>>

\* handle_input: `self.solving` is read, the event is ignored when it is true,
\* else the move key applies its move
KeyMove ==
    \E move \in Moves :
        /\ running
        /\ input_pc = "solving"
        /\ input_pc' = "loop"
        /\ IF solving
           THEN UNCHANGED <<cube, solve_status>>
           ELSE /\ Append(cube.move_history, move) \in KeyHistories
                /\ cube' = apply_move(cube, move, TRUE)
                /\ solve_status' = <<"Applied", move>>
        /\ UNCHANGED <<untracked, KOCIEMBA_AVAILABLE, history_at_call, copyVars, solverVars, move_queue,
                       current_move_index, animating, animation_ticks, solving, running>>

\* handle_input: S, self.cube.scramble(25)
KeyScramble ==
    \E picks \in ScrambleKeyPicks :
        /\ running
        /\ input_pc = "solving"
        /\ input_pc' = "loop"
        /\ IF solving
           THEN UNCHANGED <<cube, solve_status>>
           ELSE /\ scramble(cube, picks).cube.move_history \in KeyHistories
                /\ cube' = scramble(cube, picks).cube
                /\ solve_status' = <<"Cube scrambled! Press M to solve.">>
        /\ UNCHANGED <<untracked, KOCIEMBA_AVAILABLE, history_at_call, copyVars, solverVars, move_queue,
                       current_move_index, animating, animation_ticks, solving, running>>

\* handle_input: SPACE, reset_cube
KeySpace ==
    /\ running
    /\ input_pc = "solving"
    /\ input_pc' = "loop"
    /\ IF solving
       THEN UNCHANGED <<cubeVars, solve_status>>
       ELSE /\ cube' = reset_to_solved(cube)
            /\ untracked' = 0
            /\ solve_status' = <<"Cube reset to solved state!">>
    /\ UNCHANGED <<KOCIEMBA_AVAILABLE, history_at_call, copyVars, solverVars, move_queue, current_move_index,
                   animating, animation_ticks, solving, running>>

\* handle_input: M, CubeDisplay.solve_cube up to the start of the thread;
\* solve_cube reads animating and solving again before it starts one
KeySolve ==
    /\ running
    /\ input_pc = "solving"
    /\ input_pc' = "loop"
    /\ IF solving \/ animating
       THEN UNCHANGED <<solverVars, solving, solve_status, history_at_call>>
       ELSE IF is_solved(cube)
            THEN /\ solve_status' = <<"Cube is already solved!">>
                 /\ UNCHANGED <<solverVars, solving, history_at_call>>
            ELSE /\ solving' = TRUE
                 /\ solve_status' = <<"Starting ultra robust solver...">>
                 /\ pc' = "call"
                 /\ solution' = <<>>
                 /\ max_depth' = 0
                 /\ log' = <<>>
                 /\ bfs_stopped' = "none"
                 /\ history_at_call' = cube.move_history
    /\ UNCHANGED <<cubeVars, KOCIEMBA_AVAILABLE, copyVars, move_queue, current_move_index,
                   animating, animation_ticks, running>>

\* run: a QUIT event, or ESCAPE when handle_input has read both flags false
Quit ==
    /\ running
    /\ input_pc = "loop" \/ ~solving
    /\ running' = FALSE
    /\ input_pc' = "loop"
    /\ UNCHANGED <<cubeVars, KOCIEMBA_AVAILABLE, history_at_call, copyVars, solverVars, solve_status, move_queue,
                   current_move_index, animating, animation_ticks, solving>>

\* process_animation, once per frame of run's loop, while animating is set.
\* The queued entry is applied by calling the rotate method itself, so the
\* history does not record it
Frame ==
    /\ running
    /\ input_pc = "loop"
    /\ animating
    /\ IF animation_ticks < max_animation_ticks
       THEN /\ animation_ticks' = animation_ticks + 1
            /\ UNCHANGED <<cube, solve_status, current_move_index, animating>>
       ELSE /\ animation_ticks' = 0
            /\ IF current_move_index < Len(move_queue)
               THEN LET entry == move_queue[current_move_index + 1]
                        turned == call_rotate(cube.faces, entry[1], entry[2])
                        remaining == Len(move_queue) - (current_move_index + 1)
                        solved_now == is_solved([cube EXCEPT !.faces = turned])
                    IN  /\ current_move_index' = current_move_index + 1
                        /\ animating' = (remaining > 0)
                        /\ cube' = [faces |-> turned,
                                    move_history |-> IF remaining = 0 /\ solved_now
                                                     THEN <<>> ELSE cube.move_history]
                        /\ solve_status' =
                              IF remaining > 0
                              THEN executing_status(current_move_index + 1, Len(move_queue))
                              ELSE IF solved_now
                                   THEN <<"PERFECTLY SOLVED! Ultra robust solver succeeded!">>
                                   ELSE <<"Solution completed but cube not solved - investigating...">>
               ELSE /\ animating' = FALSE
                    /\ cube' = [cube EXCEPT !.move_history = IF is_solved(cube) THEN <<>> ELSE @]
                    /\ solve_status' =
                          IF is_solved(cube)
                          THEN <<"PERFECTLY SOLVED! Ultra robust solver succeeded!">>
                          ELSE <<"Solution applied - verifying final state...">>
                    /\ UNCHANGED current_move_index
    /\ UNCHANGED <<untracked, KOCIEMBA_AVAILABLE, history_at_call, copyVars, solverVars, move_queue, solving, running,
                   input_pc>>

\* the solver thread runs one strategy of solver.solve_cube(self.cube)
ThreadSolve ==
    /\ solving
    /\ SolveStep

\* solve_thread after solve_cube returned without a solution: the else branch
\* that jumps to the finally clause without writing the status
ThreadReturn_silent ==
    /\ solving
    /\ pc = "done"
    /\ IF solution # <<>>
       THEN /\ move_queue' = to_move_queue(solution)
            /\ pc' = "t_animating"
            /\ UNCHANGED solve_status
       ELSE /\ pc' = "idle"
            /\ UNCHANGED <<move_queue, solve_status>>
    /\ max_depth' = 0
    /\ log' = <<>>
    /\ bfs_stopped' = "none"
    /\ UNCHANGED <<cubeVars, KOCIEMBA_AVAILABLE, history_at_call, copyVars, solution, current_move_index, animating,
                   animation_ticks, solving, running, input_pc>>

\* solve_thread after solve_cube returned: the queue is rebuilt from the
\* solution, or the status says that there is none.  Nothing reads the queue
\* while it is rebuilt, animating being false until the next step.  The locals
\* of solve_cube are gone with its return
ThreadReturn ==
    /\ solving
    /\ pc = "done"
    /\ IF solution # <<>>
       THEN /\ move_queue' = to_move_queue(solution)
            /\ pc' = "t_animating"
            /\ UNCHANGED solve_status
       ELSE /\ solve_status' = NoSolutionStatus
            /\ pc' = "t_finally"
            /\ UNCHANGED move_queue
    /\ max_depth' = 0
    /\ log' = <<>>
    /\ bfs_stopped' = "none"
    /\ UNCHANGED <<cubeVars, KOCIEMBA_AVAILABLE, history_at_call, copyVars, solution, current_move_index, animating,
                   animation_ticks, solving, running, input_pc>>

\* solve_thread: self.animating = True
ThreadAnimating ==
    /\ pc = "t_animating"
    /\ animating' = TRUE
    /\ pc' = "t_index"
    /\ UNCHANGED <<cubeVars, KOCIEMBA_AVAILABLE, history_at_call, copyVars, solution, max_depth, log, bfs_stopped,
                   solve_status, move_queue, current_move_index, animation_ticks, solving, running,
                   input_pc>>

\* solve_thread: self.current_move_index = 0
ThreadIndex ==
    /\ pc = "t_index"
    /\ current_move_index' = 0
    /\ pc' = "t_ticks"
    /\ UNCHANGED <<cubeVars, KOCIEMBA_AVAILABLE, history_at_call, copyVars, solution, max_depth, log, bfs_stopped,
                   solve_status, move_queue, animating, animation_ticks, solving, running,
                   input_pc>>

\* solve_thread: self.animation_ticks = 0
ThreadTicks ==
    /\ pc = "t_ticks"
    /\ animation_ticks' = 0
    /\ pc' = "t_status"
    /\ UNCHANGED <<cubeVars, KOCIEMBA_AVAILABLE, history_at_call, copyVars, solution, max_depth, log, bfs_stopped,
                   solve_status, move_queue, current_move_index, animating, solving, running,
                   input_pc>>

\* solve_thread: the success message
ThreadStatus ==
    /\ pc = "t_status"
    /\ solve_status' = IF cube.move_history # <<>> /\ Len(solution) = Len(cube.move_history)
                       THEN <<"OPTIMAL SOLUTION", Len(solution)>>
                       ELSE <<"SOLUTION FOUND", Len(solution)>>
    /\ pc' = "t_finally"
    /\ UNCHANGED <<cubeVars, KOCIEMBA_AVAILABLE, history_at_call, copyVars, solution, max_depth, log, bfs_stopped,
                   move_queue, current_move_index, animating, animation_ticks, solving, running,
                   input_pc>>

\* a solver thread that ends without its finally clause
ThreadFinally_keeps_solving ==
    /\ pc = "t_finally"
    /\ pc' = "idle"
    /\ solution' = <<>>
    /\ history_at_call' = <<>>
    /\ UNCHANGED <<cubeVars, KOCIEMBA_AVAILABLE, copyVars, max_depth, log, bfs_stopped, solve_status,
                   move_queue, current_move_index, animating, animation_ticks, solving, running, input_pc>>

\* solve_thread: finally, self.solving = False; the thread ends and its local
\* `solution` with it
ThreadFinally ==
    /\ pc = "t_finally"
    /\ solving' = FALSE
    /\ pc' = "idle"
    /\ solution' = <<>>
    /\ history_at_call' = <<>>
    /\ UNCHANGED <<cubeVars, KOCIEMBA_AVAILABLE, copyVars, max_depth, log, bfs_stopped, solve_status,
                   move_queue, current_move_index, animating, animation_ticks, running, input_pc>>

DisplayNext ==
    \/ KeyDown \/ KeyMove \/ KeyScramble \/ KeySpace \/ KeySolve \/ Quit \/ Frame
    \/ ThreadSolve \/ ThreadReturn \/ ThreadAnimating \/ ThreadIndex \/ ThreadTicks
    \/ ThreadStatus \/ ThreadFinally

\* the display on a machine where `import kociemba` failed: what the external
\* solver contributes to solve_cube is explored under SolverSpec
DisplayInit ==
    /\ Init
    /\ ~KOCIEMBA_AVAILABLE

DisplaySpec == DisplayInit /\ [][DisplayNext]_vars

\* a step of the solver thread other than a replay or a search
ThreadStep ==
    \/ solving /\ (SolveEntry \/ TryExternal \/ GiveUp)
    \/ ThreadReturn \/ ThreadAnimating \/ ThreadIndex \/ ThreadTicks
    \/ ThreadStatus \/ ThreadFinally

\* handle_input comes to its end with the event it was given
KeyHandled == KeySpace \/ KeySolve \/ KeyMove \/ KeyScramble

\* the states in which TryReverse, TrySearch and Frame can be taken: their
\* guards, each of them changing the state when it is taken
ReverseDue == solving /\ pc = "reverse"

SearchDue == solving /\ pc = "search" /\ max_depth <= max_search_depth(cube)

FrameDue == running /\ input_pc = "loop" /\ animating

\* the steps of a display whose main loop is not left
LoopNext ==
    \/ KeyDown \/ KeyMove \/ KeyScramble \/ KeySpace \/ KeySolve \/ Frame
    \/ ThreadSolve \/ ThreadReturn \/ ThreadAnimating \/ ThreadIndex \/ ThreadTicks
    \/ ThreadStatus \/ ThreadFinally

\* the display while its main loop keeps running, with its scheduling: the
\* started thread keeps being run, handle_input returns, and every round of
\* run's loop calls process_animation once after its events.  For the replay,
\* the search and the frame, weak fairness (strong for the frame, which a key
\* event in handling holds back for a while) is written with the guard in
\* the place of ENABLED
FairDisplaySpec ==
    /\ DisplayInit
    /\ [][LoopNext]_vars
    /\ WF_vars(ThreadStep)
    /\ WF_vars(KeyHandled)
    /\ ([]<>~ReverseDue \/ []<><<TryReverse>>_vars)
    /\ ([]<>~SearchDue \/ []<><<TrySearch>>_vars)
    /\ (<>[]~FrameDue \/ []<><<Frame>>_vars)

(***************************************************************************)
(* Properties of the cube                                                  *)
(***************************************************************************)

\* the facelets of a grid that carry a colour
Facelets(faces, color) ==
    {p \in Face \X (0..2) \X (0..2) : faces[p[1]][p[2]][p[3]] = color}

\* the move that turns the same face the other way, read off move_map
Opposite(move) ==
    CHOOSE m \in Moves : /\ move_map[m][1] = move_map[move][1]
                         /\ move_map[m][2] = ~move_map[move][2]

\* C1: in every reachable state, applying any of the 12 moves and then its
\* get_reverse_move gives back the same grid, facelet by facelet
C1_MoveThenReverse ==
    \A m \in Moves :
        apply_move(apply_move(cube, m, TRUE), get_reverse_move(m), TRUE).faces = cube.faces

\* a mixed grid, reached by tracked and untracked moves, that every move changes
C1_Witness ==
    /\ ~is_solved(cube)
    /\ untracked > 0
    /\ Len(cube.move_history) > 0
    /\ \A m \in Moves : apply_move(cube, m, FALSE).faces # cube.faces
    /\ \A m \in Moves :
        apply_move(apply_move(cube, m, FALSE), get_reverse_move(m), FALSE).faces = cube.faces

\* C3: after tracked moves only, replaying get_perfect_solution() on the cube
\* leaves it solved (the empty history included)
C3_PerfectSolutionSolves ==
    untracked = 0 =>
        /\ is_solved(apply_each(cube, get_perfect_solution(cube), FALSE))
        /\ is_solved(apply_each(cube, get_perfect_solution(cube), TRUE))

\* an unsolved cube with a full tracked history, which its perfect solution solves
C3_Witness ==
    /\ untracked = 0
    /\ Len(cube.move_history) = MaxCalls
    /\ ~is_solved(cube)
    /\ is_solved(apply_each(cube, get_perfect_solution(cube), FALSE))

\* C4: get_perfect_solution is empty for an empty history, else as long as the
\* history with element i the opposite turn of the history's element n-1-i
\* ([F, R] gives [R', F']); it is the same whatever the grid is
C4_PerfectSolutionShape ==
    LET h == cube.move_history
        n == Len(h)
        sol == get_perfect_solution(cube)
    IN  /\ (h = <<>>) => (sol = <<>>)
        /\ Len(sol) = n
        /\ \A i \in 0..(n - 1) : sol[i + 1] = Opposite(h[(n - 1 - i) + 1])
        /\ (h = <<"F", "R">>) => (sol = <<"R'", "F'">>)
        /\ sol = get_perfect_solution([faces |-> solved_faces, move_history |-> h])

\* the history [F, R], reversed to [R', F']
C4_Witness ==
    /\ cube.move_history = <<"F", "R">>
    /\ get_perfect_solution(cube) = <<"R'", "F'">>

\* C5: every reachable grid has exactly 9 facelets of each of the 6 colours
C5_NineOfEachColor ==
    \A color \in Colors : Cardinality(Facelets(cube.faces, color)) = 9

\* a grid with a face showing at least three colours, reached with an untracked move
C5_Witness ==
    /\ untracked > 0
    /\ \E face \in Face :
          Cardinality({cube.faces[face][r][c] : r \in 0..2, c \in 0..2}) >= 3
    /\ \A color \in Colors : Cardinality(Facelets(cube.faces, color)) = 9

\* C13: apply_move with a token that is not one of the twelve ('F2', 'X', '')
\* gives back the cube it was given, grid and history, with track_history
\* true and false
C13_UnknownTokenNoEffect ==
    \A move \in BadTokens : \A track_history \in BOOLEAN :
        /\ move \notin Moves
        /\ apply_move(cube, move, track_history).faces = cube.faces
        /\ apply_move(cube, move, track_history).move_history = cube.move_history

\* a mixed cube with a history, which the unknown tokens leave as it is
C13_Witness ==
    /\ ~is_solved(cube)
    /\ Len(cube.move_history) = 1
    /\ untracked = 1
    /\ apply_move(cube, "F2", TRUE) = cube
    /\ apply_move(cube, "", FALSE) = cube

\* the whitespace-separated tokens of the strings apply_moves is given
TokensOf(moves_string) ==
    CASE moves_string = "" -> <<>>
      [] moves_string = "F R'" -> <<"F", "R'">>
      [] moves_string = " U\tB'\n" -> <<"U", "B'">>
      [] moves_string = "R X L'" -> <<"R", "X", "L'">>

\* apply_move on each token of a list in turn, first to last
RECURSIVE OneByOne(_, _, _)
OneByOne(cb, tokens, track_history) ==
    IF tokens = <<>>
    THEN cb
    ELSE OneByOne(apply_move(cb, Head(tokens), track_history), Tail(tokens), track_history)

\* C14: apply_move with one of the twelve tokens and track_history=True gives
\* the history with exactly that token appended; with track_history=False the
\* history is the same and the grid is the one the tracked call gives; and
\* apply_moves on a string is apply_move on each of its whitespace-separated
\* tokens from left to right
C14_HistoryFrame ==
    /\ \A move \in Moves :
          LET tracked == apply_move(cube, move, TRUE)
              silent == apply_move(cube, move, FALSE)
          IN  /\ tracked.move_history = Append(cube.move_history, move)
              /\ silent.move_history = cube.move_history
              /\ silent.faces = tracked.faces
              /\ silent.faces # cube.faces
    /\ \A moves_string \in MovesTexts : \A track_history \in BOOLEAN :
          apply_moves(cube, moves_string, track_history) =
              OneByOne(cube, TokensOf(moves_string), track_history)

\* a cube after apply_moves(" U\tB'\n", False) on a history of length 0, and
\* one after apply_moves("F R'", True)
C14_Witness ==
    \/ /\ cube = apply_moves(RubiksCube, " U\tB'\n", FALSE)
       /\ untracked = 2
       /\ cube.move_history = <<>>
       /\ ~is_solved(cube)
    \/ /\ cube = apply_moves(RubiksCube, "F R'", TRUE)
       /\ untracked = 0
       /\ cube.move_history = <<"F", "R'">>

\* C16: the fresh cube is solved, and the cube after any single one of the
\* twelve moves is not
C16_SolvedOnlyWhenFresh ==
    /\ cube = RubiksCube =>
          /\ is_solved(cube)
          /\ \A move \in Moves : \A track_history \in BOOLEAN :
                ~is_solved(apply_move(cube, move, track_history))
    /\ (Len(cube.move_history) + untracked = 0) => is_solved(cube)
    /\ (Len(cube.move_history) + untracked = 1) => ~is_solved(cube)

\* the cube one move away from fresh
C16_Witness ==
    /\ Len(cube.move_history) + untracked = 1
    /\ \E move \in Moves : cube.faces = apply_move(RubiksCube, move, FALSE).faces
    /\ ~is_solved(cube)

\* the order of the faces in the state string
StateStringFaces == <<"UP", "RIGHT", "FRONT", "DOWN", "LEFT", "BACK">>

\* the character of a state string that stands for facelet (row, col) of the
\* i-th face of that order
StateStringChar(text, i, row, col) ==
    SubSeq(text, 9 * (i - 1) + 3 * row + col + 1, 9 * (i - 1) + 3 * row + col + 1)

\* the grid read back from a state string
GridOfStateString(text) ==
    [face \in Face |->
        LET i == CHOOSE k \in 1..6 : StateStringFaces[k] = face
        IN  [row \in 0..2 |-> [col \in 0..2 |-> StateStringChar(text, i, row, col)]]]

\* C17: get_state_string is 54 characters long, the faces in the order Up,
\* Right, Front, Down, Left, Back, each row by row and left to right; the grid
\* can be read back from it, and the strings of two grids are equal exactly
\* when the grids are
C17_StateStringFaithful ==
    LET text == get_state_string(cube)
    IN  /\ Len(text) = 54
        /\ \A i \in 1..6 : \A row \in 0..2 : \A col \in 0..2 :
              /\ StateStringChar(text, i, row, col) = cube.faces[StateStringFaces[i]][row][col]
              /\ GridOfStateString(text)[StateStringFaces[i]][row][col] =
                    cube.faces[StateStringFaces[i]][row][col]
        /\ \A other \in {RubiksCube} \cup {apply_move(cube, move, TRUE) : move \in {"F'", "U", "L"}} :
              (get_state_string(other) = text) <=> (other.faces = cube.faces)

\* a mixed grid whose string differs from the fresh cube's on the Up face
C17_Witness ==
    /\ Len(cube.move_history) + untracked = MaxCalls
    /\ SubSeq(get_state_string(cube), 1, 9) # "WWWWWWWWW"
    /\ \E row \in 0..2 : cube.faces["UP"][row][0] # cube.faces["UP"][row][2]
    /\ GridOfStateString(get_state_string(cube))["UP"][0][0] = cube.faces["UP"][0][0]

\* the calls the cube still has room for
Budget == MaxCalls - (Len(cube.move_history) + untracked)

\* C19: scramble with n draws applies n moves, each one of the twelve, and
\* returns them in the order applied; the history afterwards is the history
\* before followed by the returned list, and the grid afterwards is the grid
\* before with the returned moves applied in order
C19_ScrambleAppends ==
    \A picks \in ScramblePicks(Budget + 1) :
        LET after == scramble(cube, picks)
            n == Len(picks)
        IN  /\ Len(after.new_moves) = n
            /\ \A i \in 1..n : /\ after.new_moves[i] \in Moves
                               /\ after.new_moves[i] = move_options[picks[i]]
            /\ after.cube.move_history = cube.move_history \o after.new_moves
            /\ after.cube.faces = OneByOne(cube, after.new_moves, FALSE).faces

\* the cube scrambled with the draws R', B' after a tracked move
C19_Witness ==
    /\ MaxCalls >= 2
    /\ Len(cube.move_history) = MaxCalls
    /\ untracked = 0
    /\ \E move \in Moves :
          /\ SubSeq(cube.move_history, 1, MaxCalls - 1) = [i \in 1..(MaxCalls - 1) |-> move]
          /\ cube = scramble(OneByOne(RubiksCube, SubSeq(cube.move_history, 1, MaxCalls - 1), TRUE),
                             <<12>>).cube
    /\ ~is_solved(cube)

\* C15: the cube copy() returns shows the original's grid and history, and
\* from then on each of the two cubes shows what the calls made on it alone
\* give: no move, scramble or reset on one changes the grid or the history of
\* the other, the two holding no list in common
C15_CopyIndependent ==
    /\ cubes.original # NoCube => deref(heap, cubes.original) = expected.original
    /\ cubes.duplicate # NoCube =>
          /\ deref(heap, cubes.duplicate) = expected.duplicate
          /\ addresses(cubes.original) \cap addresses(cubes.duplicate) = {}
          /\ copy_ops = 0 => deref(heap, cubes.duplicate) = deref(heap, cubes.original)

\* a copy taken of a cube with a history, after which both were moved, the
\* original with a tracked move and the copy with an untracked one
C15_Witness ==
    /\ cubes.duplicate # NoCube
    /\ copy_ops = MaxCopyOps
    /\ Len(deref(heap, cubes.original).move_history) = 2
    /\ Len(deref(heap, cubes.duplicate).move_history) = 1
    /\ deref(heap, cubes.duplicate).faces # deref(heap, cubes.original).faces
    /\ expected.duplicate.move_history # SubSeq(expected.original.move_history, 1, 1)

\* a step in which the solver ran on the original: a call was counted, and
\* neither cube was replaced or meant to change
SolverRanOnOriginal ==
    /\ copy_ops' = copy_ops + 1
    /\ cubes' = cubes
    /\ expected' = expected
    /\ ~returned'.is_none

\* how solve_cube ends on the original cube as it is now, kociemba raising
SolveOutcome ==
    LET value == deref(heap, cubes.original)
    IN  IF is_solved(value) THEN "already_solved"
        ELSE IF value.move_history # <<>> /\ replay_solves(value, get_perfect_solution(value))
        THEN "reversed"
        ELSE IF heap_solve_cube(heap, cubes.original, FALSE, [raises |-> TRUE, text |-> ""]).solution # <<>>
        THEN "searched"
        ELSE "gave_up"

\* C28: a run of solve_cube on a cube leaves every list that existed at the
\* call as it was, the rows of the cube's grid and its history among them,
\* whether it returns at once, by reversal, with the external answer, with a
\* search result or empty-handed; what it returns is a list of moves, and the
\* cubes it made are referenced by nobody afterwards
C28_SolverLeavesCubeAlone_Body ==
    SolverRanOnOriginal =>
        /\ heap' = heap
        /\ deref(heap', cubes'.original) = deref(heap, cubes.original)
        /\ deref(heap', cubes'.original) = expected'.original
        /\ returned'.moves \in Seq(Moves)

C28_SolverLeavesCubeAlone == [][C28_SolverLeavesCubeAlone_Body]_vars

\* the solver has run on an unsolved original that has no history, which the
\* search then solves: the replay of the external answer and the expansions
\* of the search were made
C28_Witness ==
    /\ cubes.original # NoCube
    /\ cubes.duplicate = NoCube
    /\ copy_ops = 2
    /\ deref(heap, cubes.original).move_history = <<>>
    /\ deref(heap, cubes.original) = apply_move(RubiksCube, "U", FALSE)
    /\ SolveOutcome = "searched"
    /\ returned = List(<<"U'">>)

\* the 54 facelet positions
Positions == Face \X (0..2) \X (0..2)

\* what a grid holds at a position
At(faces, p) == faces[p[1]][p[2]][p[3]]

\* a grid whose facelets all differ: each holds its own position
LabelledFaces == [f \in Face |-> [r \in 0..2 |-> [c \in 0..2 |-> <<f, r, c>>]]]

\* the face a move turns and the face across the cube from a face
TurningFace(move) ==
    CASE move \in {"F", "F'"} -> "FRONT" [] move \in {"B", "B'"} -> "BACK"
      [] move \in {"L", "L'"} -> "LEFT"  [] move \in {"R", "R'"} -> "RIGHT"
      [] move \in {"U", "U'"} -> "UP"    [] move \in {"D", "D'"} -> "DOWN"

OppositeFace(face) ==
    CASE face = "FRONT" -> "BACK" [] face = "BACK" -> "FRONT" [] face = "LEFT" -> "RIGHT"
      [] face = "RIGHT" -> "LEFT" [] face = "UP" -> "DOWN"    [] face = "DOWN" -> "UP"

\* the grid after a move, whatever the facelets hold
Turn(faces, move) == apply_move([faces |-> faces, move_history |-> <<>>], move, FALSE).faces

\* the grids after one, two, three and four turns of the same move
Turns(faces, move) ==
    LET t1 == Turn(faces, move)
        t2 == Turn(t1, move)
        t3 == Turn(t2, move)
    IN  <<t1, t2, t3, Turn(t3, move)>>

\* C24: four turns of any of the twelve moves give back every reachable grid,
\* and one, two or three turns do not; three turns are one turn of the reverse
\* move.  On the grid of 54 different facelets each self-rotation has order 4
\* and the counterclockwise one is three clockwise ones, and under each move a
\* facelet either stays or goes round a cycle of four: within the turning
\* face, or through the four neighbouring faces
C24_FourTurnsIdentity ==
    /\ untracked = 0 =>
          \A move \in Moves :
              LET t == Turns(cube.faces, move)
              IN  /\ t[4] = cube.faces
                  /\ \A k \in 1..3 : t[k] # cube.faces
                  /\ t[3] = Turn(cube.faces, Opposite(move))
    /\ cube = RubiksCube =>
          /\ \A face \in Face :
                LET r1 == rotate_face_clockwise(LabelledFaces, face)
                    r2 == rotate_face_clockwise(r1, face)
                    r3 == rotate_face_clockwise(r2, face)
                IN  /\ rotate_face_clockwise(r3, face) = LabelledFaces
                    /\ LabelledFaces \notin {r1, r2, r3}
                    /\ rotate_face_counterclockwise(LabelledFaces, face) = r3
                    /\ rotate_face_counterclockwise(r1, face) = LabelledFaces
                    /\ \A r \in 0..2 : \A c \in 0..2 : r1[face][c][2 - r] = <<face, r, c>>
          /\ \A move \in Moves :
                LET t == Turns(LabelledFaces, move)
                    turning == TurningFace(move)
                IN  /\ t[4] = LabelledFaces
                    /\ \A p \in Positions :
                          LET orbit == {p, At(t[1], p), At(t[2], p), At(t[3], p)}
                          IN  /\ Cardinality(orbit) \in {1, 4}
                              /\ (Cardinality(orbit) = 4 /\ p[1] = turning) =>
                                    \A q \in orbit : q[1] = turning
                              /\ (Cardinality(orbit) = 4 /\ p[1] # turning) =>
                                    {q[1] : q \in orbit} = Face \ {turning, OppositeFace(turning)}

\* a grid mixed by tracked moves on two faces, which two turns of U change and
\* four turns give back
C24_Witness ==
    /\ untracked = 0
    /\ Len(cube.move_history) = MaxCalls
    /\ TurningFace(cube.move_history[1]) # TurningFace(cube.move_history[2])
    /\ Turns(cube.faces, "U")[2] # cube.faces
    /\ Turns(cube.faces, "U")[4] = cube.faces
    /\ Turns(cube.faces, "U")[3] = Turn(cube.faces, "U'")

\* the positions whose facelet a move replaces by the facelet of another position
MovedBy(move) ==
    LET turned == Turn(LabelledFaces, move)
    IN  {p \in Positions : At(turned, p) # p}

\* the four faces around the face a move turns
Neighbours(move) == Face \ {TurningFace(move), OppositeFace(TurningFace(move))}

\* an outer row or an outer column of a face
Bands(face) ==
    {{<<face, r, c>> : c \in 0..2} : r \in {0, 2}} \cup {{<<face, r, c>> : r \in 0..2} : c \in {0, 2}}

\* what a move touches and what it leaves alone, with the number of facelets
\* of the neighbouring faces it leaves alone
FrameOfMoves(left_alone_on_neighbours) ==
    /\ \A face \in Face : cube.faces[face][1][1] = target_colors[face]
    /\ untracked = 0 =>
          /\ \A move \in Moves :
                LET turned == Turn(cube.faces, move)
                IN  \A p \in Positions \ MovedBy(move) : At(turned, p) = At(cube.faces, p)
          /\ \A move \in {"F", "F'", "L", "L'", "U", "U'"} :
                \A other \in {m \in Moves : TurningFace(m) = OppositeFace(TurningFace(move))} :
                    Turn(Turn(cube.faces, move), other) = Turn(Turn(cube.faces, other), move)
    /\ cube = RubiksCube =>
          \A move \in Moves :
              LET moved == MovedBy(move)
                  turning == TurningFace(move)
              IN  /\ Cardinality(moved) = 20
                  /\ {p \in moved : p[1] = turning} =
                        {p \in Positions : p[1] = turning /\ <<p[2], p[3]>> # <<1, 1>>}
                  /\ \A face \in Neighbours(move) : {p \in moved : p[1] = face} \in Bands(face)
                  /\ \A p \in moved : p[1] # OppositeFace(turning)
                  /\ \A face \in Face : <<face, 1, 1>> \notin moved
                  /\ Cardinality({p \in Positions \ moved : p[1] \in Neighbours(move)}) =
                        left_alone_on_neighbours
                  /\ \A other \in Moves :
                        (TurningFace(other) \in Neighbours(move)) =>
                            Turn(Turn(LabelledFaces, move), other) #
                                Turn(Turn(LabelledFaces, other), move)

\* C25 as stated: each move replaces only the 8 facelets around the centre of
\* the turning face and one band of 3 on each of the four neighbours; every
\* centre, the opposite face and the other 21 facelets of the neighbours stay,
\* every centre keeps the colour is_solved expects, and moves on opposite
\* faces commute
C25_MoveFrameAsStated == FrameOfMoves(21)

\* C25, with the count the grid has: the four neighbours have 36 facelets, 12
\* of them in the bands, so that 24 stay (the 4 centres and 20 more)
C25_MoveFrame == FrameOfMoves(24)

\* a grid mixed by tracked moves on two neighbouring faces: F replaces 20 of
\* its facelets by others, and the facelets of the BACK face stay
C25_Witness ==
    /\ untracked = 0
    /\ Len(cube.move_history) = MaxCalls
    /\ TurningFace(cube.move_history[1]) \in Neighbours(cube.move_history[2])
    /\ cube.faces["BACK"] # solved_faces["BACK"]
    /\ Turn(cube.faces, "F")["BACK"] = cube.faces["BACK"]
    /\ Turn(cube.faces, "F")["UP"][2] # cube.faces["UP"][2]
    /\ Turn(cube.faces, "F")["UP"][0] = cube.faces["UP"][0]
    /\ Cardinality(MovedBy("F")) = 20

(***************************************************************************)
(* Properties of CubeSolver.solve_cube                                     *)
(***************************************************************************)

\* replaying the moves on a copy of the cube gives the solved grid
SolvesCube(moves) == apply_each(copy(cube), moves, FALSE).faces = solved_faces

\* the entry's candidate is a non-empty list that solves the cube
Verifies(entry) ==
    /\ ~entry.candidate.is_none
    /\ entry.candidate.moves # <<>>
    /\ SolvesCube(entry.candidate.moves)

\* the entries of the log a strategy made
EntriesOf(strategy) == {i \in 1..Len(log) : log[i].strategy = strategy}

\* solve_cube has returned
Returned == pc = "done"

\* C2: whenever solve_cube has returned a non-empty list, replaying it on a
\* copy of the cube it was called on gives the solved grid, whichever strategy
\* made the list and whether or not the history matches the grid
C2_ReturnedSolutionSolves ==
    (Returned /\ solution # <<>>) => SolvesCube(solution)

\* a list returned by the search for a cube whose history does not match its grid
C2_Witness ==
    /\ Returned
    /\ solution # <<>>
    /\ untracked > 0
    /\ cube.move_history # <<>>
    /\ log[Len(log)].strategy = "bfs"
    /\ SolvesCube(solution)

\* C6: once solve_cube has been entered on a cube showing the solved grid, it
\* has returned the empty list and no strategy has run, empty history or not
C6_SolvedCubeReturnsAtOnce ==
    (pc \notin {"idle", "call"} /\ cube.faces = solved_faces) =>
        /\ Returned
        /\ solution = <<>>
        /\ log = <<>>
        /\ bfs_stopped = "none"
        /\ max_depth = 0

\* solve_cube has returned [] for a solved cube whose history is not empty
C6_Witness ==
    /\ Returned
    /\ cube.faces = solved_faces
    /\ cube.move_history # <<>>
    /\ solution = <<>>
    /\ log = <<>>

\* C7: on an unsolved cube the log holds the reversal (exactly when the history
\* is non-empty), then the external solver (exactly when it is available), then
\* the search at ceilings 1, 2, ... up to the maximum; only the last entry can
\* verify, solve_cube returns as soon as one does, and it returns that candidate
C7_FixedStrategyOrder ==
    LET n == Len(log)
        past_reverse == pc \in {"external", "search"} \/ (Returned /\ cube.faces # solved_faces)
        past_external == pc = "search" \/ (Returned /\ n > 0 /\ log[n].strategy = "bfs")
                            \/ (Returned /\ cube.faces # solved_faces /\ \A i \in 1..n : ~Verifies(log[i]))
        searches == Cardinality(EntriesOf("bfs"))
    IN  /\ \A i \in 1..n : \A j \in 1..n :
              (i < j) => \/ log[i].strategy = "reverse" /\ log[j].strategy # "reverse"
                         \/ log[i].strategy = "external" /\ log[j].strategy = "bfs"
                         \/ /\ log[i].strategy = "bfs" /\ log[j].strategy = "bfs"
                            /\ log[i].depth < log[j].depth
        /\ \A i \in EntriesOf("bfs") :
              /\ log[i].depth = i - (n - searches)
              /\ log[i].depth <= max_search_depth(cube)
        /\ past_reverse => ((EntriesOf("reverse") # {}) <=> (cube.move_history # <<>>))
        /\ past_external => ((EntriesOf("external") # {}) <=> KOCIEMBA_AVAILABLE)
        /\ \A i \in 1..n : Verifies(log[i]) => (i = n /\ Returned /\ solution = log[i].candidate.moves)
        /\ (Returned /\ solution # <<>>) => (n > 0 /\ Verifies(log[n]))
        /\ (Returned /\ solution = <<>> /\ cube.faces # solved_faces) =>
              searches = max_search_depth(cube)

\* all three strategies ran, the search twice, and the last search verified
C7_Witness ==
    /\ Returned
    /\ EntriesOf("reverse") # {}
    /\ EntriesOf("external") # {}
    /\ Cardinality(EntriesOf("bfs")) = 2
    /\ Verifies(log[Len(log)])
    /\ solution = log[Len(log)].candidate.moves

\* C8: a candidate of the reversal or of the external solver that does not solve
\* a copy of the cube is never what solve_cube returns as a solution, and the
\* next strategy in the order runs after it
C8_FailedCandidateDiscarded ==
    LET n == Len(log)
    IN  \A i \in 1..n :
           (log[i].strategy \in {"reverse", "external"} /\ ~Verifies(log[i])) =>
              /\ (Returned /\ solution # <<>>) => solution # log[i].candidate.moves
              /\ (i = n) => pc \in (IF log[i].strategy = "external" THEN {"search"}
                                   ELSE IF KOCIEMBA_AVAILABLE THEN {"external"}
                                   ELSE {"external", "search"})
              /\ (i < n /\ log[i].strategy = "reverse") =>
                    log[i + 1].strategy = (IF KOCIEMBA_AVAILABLE THEN "external" ELSE "bfs")
              /\ (i < n /\ log[i].strategy = "external") =>
                    (log[i + 1].strategy = "bfs" /\ log[i + 1].depth = 1)

\* a reversal and a well-formed external answer both failed to verify, and the
\* search went on to return a solution
C8_Witness ==
    /\ Returned
    /\ untracked > 0
    /\ \E i \in EntriesOf("reverse") : log[i].candidate.moves # <<>> /\ ~Verifies(log[i])
    /\ \E i \in EntriesOf("external") : log[i].candidate.moves # <<>> /\ ~Verifies(log[i])
    /\ solution # <<>>
    /\ SolvesCube(solution)

\* the move sequences of one length
MoveSeqs(k) == [1..k -> Moves]

\* no sequence of at most k moves solves the cube
NoSolutionWithin(k) == \A j \in 0..k : \A moves \in MoveSeqs(j) : ~SolvesCube(moves)

\* the node budget as the code has it
max_nodes_in_code == 100000

\* the depth ceilings the search is run at with the code's node budget
Ceilings == {1, 2}

\* the search of the unsolved cube at a ceiling, with the code's node budget
\* and a clock that never reads past the limit
FullSearch(ceiling) == bfs_loop(bfs_start(cube), ceiling, time_limit, -1, max_nodes_in_code)

\* C10: when the latest solve_bfs call hit neither the time nor the node budget,
\* a path it returned solves the cube and no shorter sequence does, and it
\* returned none only if no sequence within the depth ceiling solves the cube;
\* the same holds of the search run with the code's node budget on the cube
\* solve_cube is called on, at each of the small ceilings
C10_BfsShortest ==
    LET n == Len(log)
    IN  /\ (n > 0 /\ log[n].strategy = "bfs" /\ bfs_stopped \notin {"timeout", "node_limit"}) =>
              LET r == log[n].candidate
              IN  IF Truthy(r)
                  THEN /\ SolvesCube(r.moves)
                       /\ NoSolutionWithin(Len(r.moves) - 1)
                       /\ untracked + Len(cube.move_history) = 1 => Len(r.moves) = 1
                  ELSE NoSolutionWithin(log[n].depth)
        /\ (pc = "call" /\ ~is_solved(cube)) =>
              \A ceiling \in Ceilings :
                  LET b == FullSearch(ceiling)
                  IN  /\ b.stopped \in {"found", "exhausted"}
                      /\ b.stopped = "found" =>
                            /\ SolvesCube(b.solution.moves)
                            /\ NoSolutionWithin(Len(b.solution.moves) - 1)
                      /\ b.stopped = "exhausted" =>
                            /\ b.solution = None
                            /\ NoSolutionWithin(ceiling)

\* two untracked moves on different faces, solved by the search in two moves
C10_Witness ==
    /\ Returned
    /\ untracked = 2
    /\ cube.move_history = <<>>
    /\ bfs_stopped = "found"
    /\ Len(solution) = 2
    /\ SolvesCube(solution)
    /\ NoSolutionWithin(1)
    /\ FullSearch(2).solution = List(solution)

\* the whitespace-separated tokens of the strings kociemba.solve may return
AnswerTokens(text) ==
    CASE text = "" -> <<>>
      [] text = " " -> <<>>
      [] text = "R'" -> <<"R'">>
      [] text = " B'  R " -> <<"B'", "R">>
      [] text = "R U2" -> <<"R", "U2">>

\* C20: solve_kociemba returns a list only when kociemba.solve returned a
\* string all of whose tokens are among the twelve, and then the list is those
\* tokens; an answer with a token outside the twelve ('R U2') gives no result
\* at all, neither the valid prefix nor the valid tokens alone
C20_ExternalAnswerAllOrNothing ==
    \A i \in EntriesOf("external") :
        LET answer == log[i].answer
            result == log[i].candidate
            tokens == AnswerTokens(answer.text)
        IN  /\ ~result.is_none =>
                  /\ ~answer.raises
                  /\ \A k \in 1..Len(tokens) : tokens[k] \in Moves
                  /\ result.moves = tokens
            /\ (~answer.raises /\ \E k \in 1..Len(tokens) : tokens[k] \notin Moves) =>
                  result = None

\* kociemba.solve answered 'R U2' on an unsolved cube: no result, and the
\* search was started
C20_Witness ==
    /\ pc = "search"
    /\ cube.faces # solved_faces
    /\ \E i \in EntriesOf("external") :
          /\ log[i].answer = [raises |-> FALSE, text |-> "R U2"]
          /\ log[i].candidate = None
          /\ i = Len(log)

\* kociemba.solve raised, or answered a string that is empty, blank or holds a
\* token outside the twelve
Unusable(answer) ==
    \/ answer.raises
    \/ AnswerTokens(answer.text) = <<>>
    \/ \E k \in 1..Len(AnswerTokens(answer.text)) : AnswerTokens(answer.text)[k] \notin Moves

\* the search has been set up and has not run yet
SearchSetUp ==
    /\ pc = "search"
    /\ max_depth = 1
    /\ solution = <<>>
    /\ bfs_stopped = "none"
    /\ solve_status = <<"Searching for optimal solution...">>
    /\ EntriesOf("bfs") = {}

\* C21: the external solver has run only if it is available, and at most once;
\* when kociemba.solve raised or answered nothing usable, solve_cube has no
\* candidate from it, has not returned on it and goes to the search at ceiling
\* 1: the search is set up as it is when the external solver is absent, its
\* first call returns what solve_bfs returns on the cube at ceiling 1, and a
\* solution returned afterwards is the search's
C21_ExternalFailureFallsThrough ==
    /\ pc \in {"idle", "call", "reverse", "external", "search", "done"}
    /\ EntriesOf("external") # {} => KOCIEMBA_AVAILABLE
    /\ Cardinality(EntriesOf("external")) <= 1
    /\ (pc = "search" /\ EntriesOf("bfs") = {}) => SearchSetUp
    /\ (pc \in {"search", "done"} /\ cube.faces # solved_faces /\ EntriesOf("bfs") # {}) =>
          \E i \in EntriesOf("bfs") :
              /\ log[i].depth = 1
              /\ i > 1 => log[i - 1].strategy # "bfs"
              /\ \E timeout_at \in TimeoutChoices :
                    log[i].candidate = solve_bfs(cube, 1, time_limit, timeout_at).solution
    /\ \A i \in EntriesOf("external") :
          Unusable(log[i].answer) =>
              /\ ~Truthy(log[i].candidate)
              /\ pc \in {"search", "done"}
              /\ i = Len(log) => SearchSetUp
              /\ i < Len(log) => (log[i + 1].strategy = "bfs" /\ log[i + 1].depth = 1)
              /\ (Returned /\ solution # <<>>) =>
                    (log[Len(log)].strategy = "bfs" /\ solution = log[Len(log)].candidate.moves)

\* kociemba.solve raised on an unsolved cube without history, and the search
\* that followed returned a solution
C21_Witness ==
    /\ Returned
    /\ KOCIEMBA_AVAILABLE
    /\ cube.move_history = <<>>
    /\ Len(log) > 1
    /\ log[1].strategy = "external"
    /\ log[1].answer.raises
    /\ log[2] = Ran("bfs", 1, List(solution))
    /\ SolvesCube(solution)

\* the limit the instructions on screen give for the search
SearchLimitOnScreen == 8

NoRepeats(list) == Cardinality({list[i] : i \in 1..Len(list)}) = Len(list)

\* the grids of a list of queued nodes, in order
StatesOf(nodes) == [i \in 1..Len(nodes) |-> nodes[i].state]

\* C26: in a solve_bfs call run to its end with the code's node budget, the
\* start is the first node queued, no grid is queued twice (the start's grid
\* is never queued again) and none is expanded twice; every queued path has at
\* most max_depth moves and is the path that leads from the start to the
\* queued grid; every expanded grid was queued with a path shorter than
\* max_depth, and the grids queued with max_depth moves are not expanded
C26_BfsVisitsOnce ==
    (pc = "call" /\ ~is_solved(cube)) =>
        \A ceiling \in Ceilings :
            LET b == FullSearch(ceiling)
                queued == StatesOf(b.enqueued)
            IN  /\ b.enqueued[1] = [state |-> get_state_string(cube), moves |-> <<>>]
                /\ NoRepeats(queued)
                /\ NoRepeats(b.expanded)
                /\ {queued[i] : i \in 1..Len(queued)} = b.visited
                /\ \A i \in 1..Len(b.enqueued) :
                      /\ Len(b.enqueued[i].moves) <= ceiling
                      /\ (Len(b.enqueued[i].moves) = ceiling) =>
                            \A j \in 1..Len(b.expanded) : b.expanded[j] # queued[i]
                /\ \A i \in {1, Len(b.enqueued) \div 2, Len(b.enqueued)} :
                      get_state_string(apply_each(copy(cube), b.enqueued[i].moves, FALSE)) =
                          queued[i]
                /\ \A j \in 1..Len(b.expanded) :
                      \E i \in 1..Len(b.enqueued) :
                          /\ queued[i] = b.expanded[j]
                          /\ Len(b.enqueued[i].moves) < ceiling
                /\ Len(b.expanded) <= b.nodes_explored

\* a search at ceiling 2 that found nothing, on a cube more than two moves from solved:
\* grids reached twice (by F B and by B F, or back at the start by F F') were
\* queued once, and the grids two moves away were queued and not expanded
C26_Witness ==
    /\ pc = "call"
    /\ ~is_solved(cube)
    /\ FullSearch(2).stopped = "exhausted"
    /\ Len(FullSearch(2).expanded) = 13
    /\ Len(FullSearch(2).enqueued) > 13
    /\ Len(FullSearch(2).enqueued) < 1 + 12 + 144
    /\ FullSearch(2).nodes_explored = Len(FullSearch(2).enqueued)

\* the ways solve_bfs stops on a budget
OverBudget == {"timeout", "node_limit"}

\* C27: a solve_bfs call stopped by the time limit or by the node budget
\* returns None, which is not the empty path of a solved start, and solve_cube
\* neither stops nor fails on it: the next call is at the next ceiling, and
\* after the last ceiling solve_cube returns [] under the 'could not find'
\* message.  The node budget stops the call when one node more than max_nodes
\* has been dequeued, the time limit at the first loop check past it
C27_BudgetIsNotAnError ==
    LET n == Len(log)
    IN  /\ None # List(<<>>)
        /\ solve_bfs(RubiksCube, 1, time_limit, 0) =
              [solution |-> List(<<>>), stopped |-> "solved", nodes_explored |-> 0]
        /\ bfs_stopped \in OverBudget =>
              /\ n > 0
              /\ log[n] = Ran("bfs", log[n].depth, None)
              /\ \/ pc = "search" /\ max_depth = log[n].depth + 1 /\ solution = <<>>
                 \/ /\ Returned
                    /\ solution = <<>>
                    /\ log[n].depth = max_search_depth(cube)
                    /\ solve_status = <<"Could not find solution for current cube state">>
        /\ \A i \in EntriesOf("bfs") :
              (~Truthy(log[i].candidate)) =>
                  /\ log[i].candidate = None
                  /\ i < n => log[i + 1] = Ran("bfs", log[i].depth + 1, log[i + 1].candidate)
                  /\ (i = n /\ Returned) => log[i].depth = max_search_depth(cube)
        /\ (pc = "search" /\ max_depth <= 2) =>
              \A timeout_at \in TimeoutChoices :
                  LET r == solve_bfs(cube, max_depth, time_limit, timeout_at)
                  IN  /\ r.stopped = "node_limit" =>
                            (r.solution = None /\ r.nodes_explored = max_nodes + 1)
                      /\ r.stopped = "timeout" =>
                            (r.solution = None /\ timeout_at >= 0 /\ r.nodes_explored = timeout_at)
                      /\ r.solution = None <=> r.stopped \in OverBudget \cup {"exhausted"}

\* a cube without history on which every one of the eight searches ran out of
\* a budget, the last one out of time: solve_cube has returned []
C27_Witness ==
    /\ Returned
    /\ solution = <<>>
    /\ ~is_solved(cube)
    /\ cube.move_history = <<>>
    /\ bfs_stopped = "timeout"
    /\ Cardinality(EntriesOf("bfs")) = 8
    /\ \A i \in EntriesOf("bfs") : log[i].candidate = None
    /\ solve_status = <<"Could not find solution for current cube state">>
    /\ solve_bfs(cube, 2, time_limit, -1).stopped = "node_limit"

(***************************************************************************)
(* Properties of the display                                               *)
(***************************************************************************)

\* the solve started by the display has produced no solution so far
NoSolutionYet == solving /\ solution = <<>>

\* C9: a solve that ends with no verified solution returns [] under the
\* 'could not find' progress message; the thread then writes the 'no solution'
\* status and sets solving to false; from the start of that solve to its end no
\* step changes the cube, the queue or the animation fields, and animating
\* stays false, so that input is accepted once solving is false
C9_TotalFailure ==
    /\ [](/\ (NoSolutionYet /\ pc = "done") =>
                /\ solve_status = <<"Could not find solution for current cube state">>
                /\ ~animating
          /\ (NoSolutionYet /\ pc = "t_finally") =>
                /\ solve_status = NoSolutionStatus
                /\ ~animating
          /\ (pc = "idle" /\ solve_status = NoSolutionStatus) =>
                /\ ~solving
                /\ ~animating
                /\ solution = <<>>
          /\ NoSolutionYet => pc \in {"call", "reverse", "external", "search", "done", "t_finally"})
    /\ [][NoSolutionYet =>
            /\ cube' = cube
            /\ ~animating'
            /\ <<move_queue, current_move_index, animation_ticks>>' =
                  <<move_queue, current_move_index, animation_ticks>>
            /\ (pc = "t_finally" /\ pc' # pc) => (~solving' /\ pc' = "idle")]_vars

\* the display after a failed solve: the status says so, the cube is as
\* unsolved as it was and input is accepted
C9_Witness ==
    /\ pc = "idle"
    /\ solve_status = NoSolutionStatus
    /\ ~solving
    /\ ~animating
    /\ running
    /\ cube.faces # solved_faces
    /\ cube.move_history # <<>>
    /\ solution = <<>>

\* the message solve_thread writes for a solution of n moves
FoundStatus(n, optimal) ==
    IF optimal THEN <<"OPTIMAL SOLUTION", n>> ELSE <<"SOLUTION FOUND", n>>

\* C23: the status the solver thread writes for a solution gives the number of
\* its moves and is the 'optimal' one exactly when that number is the length of
\* the history the cube had when solve_cube was called, whatever
\* process_animation has done in between
C23_StatusTellsOptimal ==
    [][(pc = "t_status" /\ pc' = "t_finally") =>
          solve_status' = FoundStatus(Len(solution), Len(solution) = Len(history_at_call))]_vars

\* C29: whenever the display neither solves nor animates, the grid of the cube
\* is the one its history gives when replayed from the solved cube; and a
\* solve asked for with a history in place never comes to the external solver
\* or the search, the reversal of the history verifying
C29_IdleGridIsReplayOfHistory ==
    /\ (~solving /\ ~animating) =>
          cube.faces = apply_each(RubiksCube, cube.move_history, FALSE).faces
    /\ (solving /\ history_at_call # <<>>) =>
          EntriesOf("external") \cup EntriesOf("bfs") = {}

\* C30: while the main loop keeps running, every solve that was started leads
\* to a state in which solve_cube has returned and its thread has ended,
\* solving being false again, and in which nothing is animated any more, so
\* that keys are taken again
C30_SolveTerminates ==
    solving ~> (pc = "idle" /\ ~solving /\ ~animating)

\* a solve was started, its solution was animated to the end by the running
\* loop, and the display is idle again on a solved cube
C30_Witness ==
    /\ running
    /\ ~solving
    /\ ~animating
    /\ pc = "idle"
    /\ move_queue # <<>>
    /\ current_move_index = Len(move_queue)
    /\ solve_status = <<"PERFECTLY SOLVED! Ultra robust solver succeeded!">>

\* handle_input finishes with a key event while a solve or an animation is on
KeyHandledWhileBusy ==
    /\ input_pc = "solving"
    /\ input_pc' = "loop"
    /\ running'
    /\ animating \/ solving

\* C11: a key event for a move, a scramble, a reset or a solve that handle_input
\* handles while solving or animating is true leaves the cube's grid and history
\* as they are, starts no solver thread and leaves nothing behind that takes
\* effect later
C11_KeysDroppedWhileBusy ==
    [][KeyHandledWhileBusy =>
          /\ cube' = cube
          /\ solverVars' = solverVars
          /\ <<solve_status, move_queue, current_move_index, animating, animation_ticks,
               solving>>' =
             <<solve_status, move_queue, current_move_index, animating, animation_ticks,
               solving>>]_vars

\* the step of process_animation that ends an animation
AnimationEnds == animating /\ ~animating'

\* C12: the queue the thread built from a verified solution is played from its
\* first move to its last, each move once, whatever the interleaving of the
\* thread's writes with process_animation, so that the step that ends the
\* animation leaves the cube solved with an empty history.  Stated for the
\* animations that end before the thread has set solving to false: since the
\* solve began handle_input has dropped every key, and only the thread and
\* process_animation have run
C12_AnimationPlaysSolution ==
    [][(AnimationEnds /\ solving) =>
          /\ is_solved(cube')
          /\ cube'.move_history = <<>>]_vars

\* one history is the other with moves appended at its end, or the same
GrownFrom(before, after) ==
    /\ Len(before) <= Len(after)
    /\ SubSeq(after, 1, Len(before)) = before

\* the step of handle_input that resets the cube
ResetStep ==
    /\ input_pc = "solving"
    /\ input_pc' = "loop"
    /\ solve_status' = <<"Cube reset to solved state!">>

\* what a step may do to the history
HistoryStep ==
    /\ \/ GrownFrom(cube.move_history, cube'.move_history)
       \/ /\ cube'.move_history = <<>>
          /\ is_solved(cube')
          /\ ResetStep \/ AnimationEnds
    /\ ResetStep => (cube'.faces = solved_faces /\ cube'.move_history = <<>>)
    /\ (AnimationEnds /\ is_solved(cube')) => cube'.move_history = <<>>
    /\ (solving /\ pc' # pc) => cube'.move_history = cube.move_history

\* C18: under the keys, the solver thread and the animation the history only
\* grows at its end, except that it becomes empty on a reset, which gives the
\* solved grid, and at the end of an animation that leaves the cube solved,
\* which always empties it; a cube brought back to solved by move keys keeps
\* its history, and no step of the solver thread, failed solve or not, changes it
C18_HistoryAppendOnly ==
    /\ []((~animating /\ ~solving /\ solve_status[1] = "Applied" /\ is_solved(cube)) =>
              cube.move_history # <<>>)
    /\ [][HistoryStep]_vars

\* the cube brought back to solved with the move keys B, B': the history stays
C18_Witness ==
    /\ solve_status = <<"Applied", "B'">>
    /\ is_solved(cube)
    /\ cube.move_history = <<"B", "B'">>
    /\ ~animating
    /\ ~solving

====
